---------------------------- MODULE Spec2Model ----------------------------
(***************************************************************************)
(* Bonding-curve pricing engine of the meme-token launch front end         *)
(* (lib/bonding-curve, kept in src/unnamed/part_000 lines 144-236).        *)
(*                                                                         *)
(* The engine computes on JavaScript numbers, i.e. IEEE-754 binary64       *)
(* values with round-to-nearest, ties-to-even.  The model keeps that       *)
(* arithmetic: a number is a record [sgn, man, exp] denoting               *)
(* (-1)^sgn * man * 2^exp with a 53-bit significand man, and every         *)
(* operation rounds its exact result as the hardware does.  Significands   *)
(* and the exact intermediate results are natural numbers of arbitrary     *)
(* size, kept as little-endian sequences of 15-bit limbs.                  *)
(* NaN, the infinities and subnormals are outside the modelled range: the  *)
(* inputs of the model are finite and no modelled operation leaves the     *)
(* normal range on them.                                                   *)
(***************************************************************************)
EXTENDS Integers, Sequences, FiniteSets, Bags

---------------------------------------------------------------------------
(* Natural numbers of arbitrary size: little-endian limbs, no high zeros.  *)
(* The arithmetic is written as functions: a function is applied to the    *)
(* values of its arguments.                                                *)

LimbBits == 3 * 5
Base == 2^LimbBits

Big == Seq(Nat)

Pow2[n \in Nat] == 2^n

BTrim[a \in Big] ==
  IF a = <<>> THEN <<>>
  ELSE IF a[Len(a)] = 0 THEN BTrim[SubSeq(a, 1, Len(a) - 1)]
  ELSE a

BFromNat[n \in Nat] ==
  IF n = 0 THEN <<>> ELSE <<n % Base>> \o BFromNat[n \div Base]

BLimb[a \in Big, i \in Nat] == IF i >= 1 /\ i <= Len(a) THEN a[i] ELSE 0

\* the limbs of a + b + c from limb i on, c the carry into limb i
BAddC[a \in Big, b \in Big, i \in Nat, c \in Nat] ==
  IF i > Len(a) /\ i > Len(b) THEN (IF c = 0 THEN <<>> ELSE <<c>>)
  ELSE <<(BLimb[a, i] + BLimb[b, i] + c) % Base>>
         \o BAddC[a, b, i + 1, (BLimb[a, i] + BLimb[b, i] + c) \div Base]

BAdd[a \in Big, b \in Big] == BAddC[a, b, 1, 0]

\* the limbs of a - b - c from limb i on, for a >= b, c the borrow from limb i
BSubC[a \in Big, b \in Big, i \in Nat, c \in Nat] ==
  IF i > Len(a) THEN <<>>
  ELSE IF a[i] - BLimb[b, i] - c < 0
    THEN <<a[i] - BLimb[b, i] - c + Base>> \o BSubC[a, b, i + 1, 1]
    ELSE <<a[i] - BLimb[b, i] - c>> \o BSubC[a, b, i + 1, 0]

BSub[a \in Big, b \in Big] == BTrim[BSubC[a, b, 1, 0]]

\* -1, 0, 1 as a < b, a = b, a > b on the limbs 1..i, for Len(a) = Len(b)
BCmpAt[a \in Big, b \in Big, i \in Nat] ==
  IF i = 0 THEN 0
  ELSE IF a[i] < b[i] THEN -1
  ELSE IF a[i] > b[i] THEN 1
  ELSE BCmpAt[a, b, i - 1]

BCmp[a \in Big, b \in Big] ==
  IF Len(a) < Len(b) THEN -1
  ELSE IF Len(a) > Len(b) THEN 1
  ELSE BCmpAt[a, b, Len(a)]

\* the limbs of a * k + c from limb i on, for a limb k
BMulSmallC[a \in Big, k \in Nat, i \in Nat, c \in Nat] ==
  IF i > Len(a) THEN (IF c = 0 THEN <<>> ELSE <<c>>)
  ELSE <<(a[i] * k + c) % Base>> \o BMulSmallC[a, k, i + 1, (a[i] * k + c) \div Base]

BMulSmall[a \in Big, k \in Nat] == BTrim[BMulSmallC[a, k, 1, 0]]

BMulAt[a \in Big, b \in Big, j \in Nat] ==
  IF j > Len(b) THEN <<>>
  ELSE BAdd[BMulSmallC[a, b[j], 1, 0], <<0>> \o BMulAt[a, b, j + 1]]

BMul[a \in Big, b \in Big] ==
  IF a = <<>> \/ b = <<>> THEN <<>> ELSE BTrim[BMulAt[a, b, 1]]

BZeros[n \in Nat] == [i \in 1..n |-> 0]

BShl[a \in Big, n \in Nat] ==
  IF a = <<>> THEN <<>>
  ELSE BZeros[n \div LimbBits] \o BMulSmall[a, Pow2[n % LimbBits]]

BShr[a \in Big, n \in Nat] ==
  IF (n \div LimbBits) >= Len(a) THEN <<>>
  ELSE BTrim[[i \in 1..(Len(a) - (n \div LimbBits)) |->
                (a[i + (n \div LimbBits)] \div Pow2[n % LimbBits])
                + (BLimb[a, i + (n \div LimbBits) + 1] % Pow2[n % LimbBits])
                    * Pow2[LimbBits - (n % LimbBits)]]]

SmallBitLen[k \in Nat] == IF k = 0 THEN 0 ELSE 1 + SmallBitLen[k \div 2]

BBitLen[a \in Big] ==
  IF a = <<>> THEN 0 ELSE LimbBits * (Len(a) - 1) + SmallBitLen[a[Len(a)]]

BIsOdd[a \in Big] == a # <<>> /\ a[1] % 2 = 1

BOne == <<1>>

---------------------------------------------------------------------------
(* IEEE-754 binary64 values and operations.                                *)

MantBits == 50 + 3
Guard == MantBits + 3

\* (-1)^sgn * man * 2^exp; a double has man = <<>> or a man of MantBits bits
Dyadic == [sgn : {0, 1}, man : Big, exp : Int]

Zero == [sgn |-> 0, man |-> <<>>, exp |-> 0]

FIsZero(x) == x.man = <<>>

\* q (the significand m cut by sh bits) rounded up or not, and renormalised
RoundCut[s \in {0, 1}, q \in Big, up \in BOOLEAN, e \in Int] ==
  IF ~up THEN [sgn |-> s, man |-> q, exp |-> e]
  ELSE IF BBitLen[BAdd[q, BOne]] > MantBits
    THEN [sgn |-> s, man |-> BShr[BAdd[q, BOne], 1], exp |-> e + 1]
    ELSE [sgn |-> s, man |-> BAdd[q, BOne], exp |-> e]

\* m of L > MantBits bits: round to nearest, ties to even
RoundLong[s \in {0, 1}, m \in Big, e \in Int, q \in Big, sh \in Nat] ==
  RoundCut[s, q,
           BCmp[BSub[m, BShl[q, sh]], BShl[BOne, sh - 1]] > 0
             \/ (BCmp[BSub[m, BShl[q, sh]], BShl[BOne, sh - 1]] = 0 /\ BIsOdd[q]),
           e + sh]

RoundBits[s \in {0, 1}, m \in Big, e \in Int, L \in Nat] ==
  IF L = 0 THEN [sgn |-> s, man |-> <<>>, exp |-> 0]
  ELSE IF L <= MantBits
    THEN [sgn |-> s, man |-> BShl[m, MantBits - L], exp |-> e - (MantBits - L)]
  ELSE RoundLong[s, m, e, BShr[m, L - MantBits], L - MantBits]

\* The double nearest to (-1)^s * m * 2^e (ties to even), for a natural m of any size.
RoundToDouble[s \in {0, 1}, m \in Big, e \in Int] == RoundBits[s, m, e, BBitLen[m]]

FromInt[n \in Int] ==
  IF n >= 0 THEN RoundToDouble[0, BFromNat[n], 0]
  ELSE RoundToDouble[1, BFromNat[0 - n], 0]

FNeg[x \in Dyadic] == [x EXCEPT !.sgn = 1 - x.sgn]

FMul[x \in Dyadic, y \in Dyadic] ==
  RoundToDouble[(x.sgn + y.sgn) % 2, BMul[x.man, y.man], x.exp + y.exp]

\* the sum of (-1)^sx * mx * 2^e and (-1)^sy * my * 2^e
FAddAligned[sx \in {0, 1}, mx \in Big, sy \in {0, 1}, my \in Big, e \in Int] ==
  IF sx = sy THEN RoundToDouble[sx, BAdd[mx, my], e]
  ELSE IF BCmp[mx, my] = 0 THEN Zero
  ELSE IF BCmp[mx, my] > 0 THEN RoundToDouble[sx, BSub[mx, my], e]
  ELSE RoundToDouble[sy, BSub[my, mx], e]

\* x + y at the common exponent e; an operand whose exponent is below e lies
\* more than Guard binary places below the other, where it only decides the
\* direction of rounding: one unit in the last guard place stands for it
FAddAt[x \in Dyadic, y \in Dyadic, e \in Int] ==
  FAddAligned[x.sgn, IF x.exp < e THEN BOne ELSE BShl[x.man, x.exp - e],
              y.sgn, IF y.exp < e THEN BOne ELSE BShl[y.man, y.exp - e], e]

FAdd[x \in Dyadic, y \in Dyadic] ==
  IF FIsZero(x) THEN (IF FIsZero(y) THEN [Zero EXCEPT !.sgn = x.sgn * y.sgn] ELSE y)
  ELSE IF FIsZero(y) THEN x
  ELSE IF x.exp - y.exp > Guard THEN FAddAt[x, y, x.exp - Guard]
  ELSE IF y.exp - x.exp > Guard THEN FAddAt[x, y, y.exp - Guard]
  ELSE IF x.exp <= y.exp THEN FAddAt[x, y, x.exp]
  ELSE FAddAt[x, y, y.exp]

FSub[x \in Dyadic, y \in Dyadic] == FAdd[x, FNeg[y]]

DivLimbs == (MantBits + LimbBits - 1) \div LimbBits

\* The largest k <= qh with k * d <= r, and the remainder r - k * d
DivFix[r \in Big, d \in Big, qh \in Nat] ==
  IF BCmp[BMulSmall[d, qh], r] > 0 THEN DivFix[r, d, qh - 1]
  ELSE <<qh, BSub[r, BMulSmall[d, qh]]>>

\* One limb of long division: <<floor(r / d), r mod d>> for r < d * Base and a
\* divisor d of DivLimbs limbs whose top limb is at least Base / 2, so that the
\* estimate from the two top limbs of r is at most 2 too large
DivDigit[r \in Big, d \in Big] ==
  IF (BLimb[r, DivLimbs + 1] * Base + BLimb[r, DivLimbs]) \div d[DivLimbs] >= Base
    THEN DivFix[r, d, Base - 1]
    ELSE DivFix[r, d, (BLimb[r, DivLimbs + 1] * Base + BLimb[r, DivLimbs]) \div d[DivLimbs]]

\* n more limbs of the quotient, the digit and remainder of the last step in
\* qr, the quotient so far in q: <<quotient, remainder>>
DivLong[qr \in Nat \X Big, d \in Big, n \in Nat, q \in Big] ==
  IF n = 0 THEN <<BTrim[<<qr[1]>> \o q], qr[2]>>
  ELSE DivLong[DivDigit[IF qr[2] = <<>> THEN <<>> ELSE <<0>> \o qr[2], d],
               d, n - 1, <<qr[1]>> \o q]

\* both significands moved up so that the divisor fills its top limb
DivShift == DivLimbs * LimbBits - MantBits

\* the quotient <<q, r>> of the significands, with the remainder as a sticky bit
DivRound[s \in {0, 1}, qr \in Big \X Big, e \in Int] ==
  RoundToDouble[s, BAdd[BShl[qr[1], 1], IF qr[2] = <<>> THEN <<>> ELSE BOne], e]

DivMant[r0 \in Big, d \in Big] ==
  IF BCmp[r0, d] >= 0 THEN DivLong[<<1, BSub[r0, d]>>, d, DivLimbs, <<>>]
  ELSE DivLong[<<0, r0>>, d, DivLimbs, <<>>]

\* x / y for y # 0
FDiv[x \in Dyadic, y \in Dyadic] ==
  IF FIsZero(x) THEN [Zero EXCEPT !.sgn = (x.sgn + y.sgn) % 2]
  ELSE DivRound[(x.sgn + y.sgn) % 2,
                DivMant[BShl[x.man, DivShift], BShl[y.man, DivShift]],
                x.exp - y.exp - DivLimbs * LimbBits - 1]

\* -1, 0, 1 as |x| < |y|, |x| = |y|, |x| > |y|
FCmpMag[x \in Dyadic, y \in Dyadic] ==
  IF FIsZero(x) THEN (IF FIsZero(y) THEN 0 ELSE -1)
  ELSE IF FIsZero(y) THEN 1
  ELSE IF x.exp < y.exp THEN -1
  ELSE IF x.exp > y.exp THEN 1
  ELSE BCmp[x.man, y.man]

\* -1, 0, 1 as x < y, x = y, x > y (the zeros of either sign are equal)
FCmp[x \in Dyadic, y \in Dyadic] ==
  IF FIsZero(x) /\ FIsZero(y) THEN 0
  ELSE IF x.sgn = 0 /\ y.sgn = 1 THEN 1
  ELSE IF x.sgn = 1 /\ y.sgn = 0 THEN -1
  ELSE IF x.sgn = 0 THEN FCmpMag[x, y]
  ELSE 0 - FCmpMag[x, y]

FEq(x, y) == FCmp[x, y] = 0
FLt(x, y) == FCmp[x, y] < 0
FLe(x, y) == FCmp[x, y] <= 0

\* Math.min on finite numbers (-0 is smaller than +0)
MathMin[x \in Dyadic, y \in Dyadic] ==
  IF FCmp[x, y] < 0 THEN x
  ELSE IF FCmp[y, x] < 0 THEN y
  ELSE IF x.sgn = 1 THEN x ELSE y

\* The number a decimal literal n / 10^d denotes (n and 10^d are exact doubles)
FromDecimal[n \in Int, d \in Nat] == FDiv[FromInt[n], FromInt[10^d]]

\* x in magnitude
FAbs[x \in Dyadic] == [x EXCEPT !.sgn = 0]

\* k units in the last place of x (x # 0)
Ulps[x \in Dyadic, k \in Nat] == RoundToDouble[0, BFromNat[k], x.exp]

---------------------------------------------------------------------------
(* Exact dyadic rationals (-1)^sgn * man * 2^exp with a significand of any *)
(* size: the real-number values the rounded results are measured against.  *)

ExactMul[x \in Dyadic, y \in Dyadic] ==
  [sgn |-> (x.sgn + y.sgn) % 2, man |-> BMul[x.man, y.man], exp |-> x.exp + y.exp]

ExactAbsDiffAligned[sx \in {0, 1}, mx \in Big, sy \in {0, 1}, my \in Big, e \in Int] ==
  IF sx # sy THEN [sgn |-> 0, man |-> BAdd[mx, my], exp |-> e]
  ELSE IF BCmp[mx, my] >= 0 THEN [sgn |-> 0, man |-> BSub[mx, my], exp |-> e]
  ELSE [sgn |-> 0, man |-> BSub[my, mx], exp |-> e]

MinInt[i \in Int, j \in Int] == IF i <= j THEN i ELSE j

ExactAbsDiffAt[x \in Dyadic, y \in Dyadic, e \in Int] ==
  ExactAbsDiffAligned[x.sgn, BShl[x.man, x.exp - e], y.sgn, BShl[y.man, y.exp - e], e]

\* |x - y|
ExactAbsDiff[x \in Dyadic, y \in Dyadic] ==
  IF FIsZero(x) THEN [y EXCEPT !.sgn = 0]
  ELSE IF FIsZero(y) THEN [x EXCEPT !.sgn = 0]
  ELSE ExactAbsDiffAt[x, y, MinInt[x.exp, y.exp]]

ExactLeAt[x \in Dyadic, y \in Dyadic, e \in Int] ==
  BCmp[BShl[x.man, x.exp - e], BShl[y.man, y.exp - e]] <= 0

\* x <= y for x, y >= 0
ExactLe[x \in Dyadic, y \in Dyadic] ==
  IF FIsZero(x) THEN TRUE
  ELSE IF FIsZero(y) THEN FALSE
  ELSE ExactLeAt[x, y, MinInt[x.exp, y.exp]]

---------------------------------------------------------------------------
(* BONDING_CURVE_CONFIG                                                    *)

INITIAL_PRICE == FromDecimal[1533, 7]
MAX_SUPPLY == FromInt[1000000000]
BONDING_CURVE_PERCENT == FromInt[70]
PRICE_STEP_SIZE == FromInt[100000000]
CREATOR_MAX_BUY_PERCENT == FromInt[20]
FEE_PERCENT == FromInt[1]

One == FromInt[1]
Hundred == FromInt[100]

---------------------------------------------------------------------------
(* The six engine functions.                                               *)

\* (MAX_SUPPLY * BONDING_CURVE_PERCENT) / 100
bondingMax == FDiv[FMul[MAX_SUPPLY, BONDING_CURVE_PERCENT], Hundred]

\* Variants of the engine functions with one slip each; no action uses them.
\* the supply is not clamped to the allocation
effectiveSupply_Unclamped(currentSupply) == currentSupply

\* the supply wraps around at the allocation instead of stopping there
effectiveSupply_Wrapped(currentSupply) ==
  IF FLe(currentSupply, bondingMax) THEN currentSupply
  ELSE FSub[currentSupply, bondingMax]

\* a negative supply is raised to 0
effectiveSupply_ClampedBelow(currentSupply) ==
  IF FLt(currentSupply, Zero) THEN Zero ELSE MathMin[currentSupply, bondingMax]

effectiveSupply(currentSupply) == MathMin[currentSupply, bondingMax]

\* the ratio is taken against MAX_SUPPLY instead of PRICE_STEP_SIZE
supplyRatio_OfMaxSupply(currentSupply) ==
  FDiv[effectiveSupply(currentSupply), MAX_SUPPLY]

supplyRatio(currentSupply) == FDiv[effectiveSupply(currentSupply), PRICE_STEP_SIZE]

\* the "1 +" of the formula is lost
calculateBondingCurvePrice_NoOne(currentSupply) ==
  IF FIsZero(effectiveSupply(currentSupply)) THEN INITIAL_PRICE
  ELSE FMul[INITIAL_PRICE, FMul[supplyRatio(currentSupply), supplyRatio(currentSupply)]]

\* the square of the ratio is subtracted instead of added
calculateBondingCurvePrice_MinusSquare(currentSupply) ==
  IF FIsZero(effectiveSupply(currentSupply)) THEN INITIAL_PRICE
  ELSE FMul[INITIAL_PRICE,
            FSub[One, FMul[supplyRatio(currentSupply), supplyRatio(currentSupply)]]]

calculateBondingCurvePrice(currentSupply) ==
  IF FIsZero(effectiveSupply(currentSupply)) THEN INITIAL_PRICE
  ELSE FMul[INITIAL_PRICE,
            FAdd[One, FMul[supplyRatio(currentSupply), supplyRatio(currentSupply)]]]

\* the percentage is not clamped at 100
calculateBondingCurveProgress_NoClamp(currentSupply) ==
  FMul[FDiv[currentSupply, bondingMax], Hundred]

calculateBondingCurveProgress(currentSupply) ==
  MathMin[FMul[FDiv[currentSupply, bondingMax], Hundred], Hundred]

\* the quote is priced at the supply the purchase would lead to
calculateTokensFromTrust_PostTradePrice(trustAmount, currentSupply) ==
  FDiv[trustAmount,
       calculateBondingCurvePrice(
         FAdd[currentSupply, FDiv[trustAmount, calculateBondingCurvePrice(currentSupply)]])]

calculateTokensFromTrust(trustAmount, currentSupply) ==
  FDiv[trustAmount, calculateBondingCurvePrice(currentSupply)]

\* the conversion charges the sell fee
calculateTrustFromTokens_WithFee(tokenAmount, currentSupply) ==
  FSub[FMul[tokenAmount, calculateBondingCurvePrice(currentSupply)],
       FDiv[FMul[FMul[tokenAmount, calculateBondingCurvePrice(currentSupply)], FEE_PERCENT],
            Hundred]]

calculateTrustFromTokens(tokenAmount, currentSupply) ==
  FMul[tokenAmount, calculateBondingCurvePrice(currentSupply)]

\* the fee is not deducted
calculateTrustFromSell_NoFee(tokenAmount, currentSupply) ==
  FMul[tokenAmount, calculateBondingCurvePrice(currentSupply)]

\* the fee is added instead of deducted
calculateTrustFromSell_AddFee(tokenAmount, currentSupply) ==
  FAdd[FMul[tokenAmount, calculateBondingCurvePrice(currentSupply)],
       FDiv[FMul[FMul[tokenAmount, calculateBondingCurvePrice(currentSupply)], FEE_PERCENT],
            Hundred]]

calculateTrustFromSell(tokenAmount, currentSupply) ==
  LET grossTrust == FMul[tokenAmount, calculateBondingCurvePrice(currentSupply)]
      fee        == FDiv[FMul[grossTrust, FEE_PERCENT], Hundred]
  IN  FSub[grossTrust, fee]

\* price times the supply passed in (the valuation the repository corrected)
calculateMarketCap_TimesSupply(currentSupply) ==
  FMul[calculateBondingCurvePrice(currentSupply), currentSupply]

calculateMarketCap(currentSupply) ==
  FMul[calculateBondingCurvePrice(currentSupply), bondingMax]

---------------------------------------------------------------------------
(* JavaScript values of the trade UI: numbers with NaN and the infinities, *)
(* the absent value, and the strings the input fields hold.                *)

\* a number value: a finite double val, NaN or an infinity; or undefined
JsValue ==
  [kind : {"finite", "NaN", "Infinity", "-Infinity", "undefined"}, val : Dyadic]

Fin(x) == [kind |-> "finite", val |-> x]
NaN == [kind |-> "NaN", val |-> Zero]
PosInfinity == [kind |-> "Infinity", val |-> Zero]
NegInfinity == [kind |-> "-Infinity", val |-> Zero]
Undefined == [kind |-> "undefined", val |-> Zero]

\* the sign of a number value that is not NaN: 0 for +, 1 for -
SignOf(a) ==
  IF a.kind = "finite" THEN a.val.sgn ELSE IF a.kind = "-Infinity" THEN 1 ELSE 0

InfinityOf(s) == IF s = 0 THEN PosInfinity ELSE NegInfinity

\* a * b
JsMul(a, b) ==
  IF a.kind \in {"NaN", "undefined"} \/ b.kind \in {"NaN", "undefined"} THEN NaN
  ELSE IF a.kind = "finite" /\ b.kind = "finite" THEN Fin(FMul[a.val, b.val])
  ELSE IF (a.kind = "finite" /\ FIsZero(a.val)) \/ (b.kind = "finite" /\ FIsZero(b.val))
    THEN NaN
  ELSE InfinityOf((SignOf(a) + SignOf(b)) % 2)

\* a / b
JsDiv(a, b) ==
  IF a.kind \in {"NaN", "undefined"} \/ b.kind \in {"NaN", "undefined"} THEN NaN
  ELSE IF a.kind = "finite" /\ b.kind = "finite"
    THEN IF FIsZero(b.val)
           THEN (IF FIsZero(a.val) THEN NaN ELSE InfinityOf((SignOf(a) + SignOf(b)) % 2))
           ELSE Fin(FDiv[a.val, b.val])
  ELSE IF a.kind = "finite"
    THEN Fin([Zero EXCEPT !.sgn = (SignOf(a) + SignOf(b)) % 2])
  ELSE IF b.kind = "finite" THEN InfinityOf((SignOf(a) + SignOf(b)) % 2)
  ELSE NaN

\* a <= 0 (false for NaN)
JsLeZero(a) ==
  \/ a.kind = "-Infinity"
  \/ (a.kind = "finite" /\ FLe(a.val, Zero))

\* a > 0 (false for NaN)
JsGtZero(a) ==
  \/ a.kind = "Infinity"
  \/ (a.kind = "finite" /\ FLt(Zero, a.val))

\* a is falsy: undefined, NaN, +0 or -0
JsFalsy(a) ==
  \/ a.kind \in {"undefined", "NaN"}
  \/ (a.kind = "finite" /\ FIsZero(a.val))

\* a || b
JsOr(a, b) == IF JsFalsy(a) THEN b ELSE a

\* A string of an input field: empty; a decimal numeral, -digits / 10^places
\* when neg; the shortest numeral that reads back as the double val (what
\* toString writes); or one of the words NaN, Infinity, -Infinity.
Text ==
  [form : {"empty", "decimal", "shortest", "NaN", "Infinity", "-Infinity"},
   neg : BOOLEAN, digits : Big, places : Nat, val : Dyadic]

Word(w) == [form |-> w, neg |-> FALSE, digits |-> <<>>, places |-> 0, val |-> Zero]
EmptyText == Word("empty")

Decimal(s, n, d) ==
  [form |-> "decimal", neg |-> s, digits |-> n, places |-> d, val |-> Zero]

\* the numeral the user types for n / 10^d
Typed(n, d) ==
  IF n < 0 THEN Decimal(TRUE, BFromNat[0 - n], d) ELSE Decimal(FALSE, BFromNat[n], d)

\* the double nearest to the decimal numeral, for digits below 2^MantBits and
\* places up to 9 (digits and 10^places are then exact doubles)
DecimalValue[s \in BOOLEAN, n \in Big, d \in Nat] ==
  FDiv[RoundToDouble[IF s THEN 1 ELSE 0, n, 0], FromInt[10^d]]

\* Number.parseFloat
ParseFloat(t) ==
  CASE t.form = "empty" -> NaN
    [] t.form = "NaN" -> NaN
    [] t.form = "Infinity" -> PosInfinity
    [] t.form = "-Infinity" -> NegInfinity
    [] t.form = "shortest" -> Fin(t.val)
    [] t.form = "decimal" -> Fin(DecimalValue[t.neg, t.digits, t.places])

\* a non-empty string is truthy
TextTruthy(t) == t.form # "empty"

\* Number.prototype.toString: a double reads back as itself; both zeros are "0"
NumberToString(a) ==
  CASE a.kind = "finite" ->
         [form |-> "shortest", neg |-> FALSE, digits |-> <<>>, places |-> 0,
          val |-> IF FIsZero(a.val) THEN Zero ELSE a.val]
    [] a.kind = "NaN" -> Word("NaN")
    [] a.kind = "Infinity" -> Word("Infinity")
    [] a.kind = "-Infinity" -> Word("-Infinity")

\* the integer nearest to m * 2^e * 10^d, the larger one of two
FixedDigits[m \in Big, e \in Int, d \in Nat] ==
  IF e >= 0 THEN BShl[BMul[m, BFromNat[10^d]], e]
  ELSE BShr[BAdd[BMul[m, BFromNat[10^d]], BShl[BOne, (0 - e) - 1]], 0 - e]

\* Number.prototype.toFixed(d), for |a| < 10^21
ToFixed(a, d) ==
  CASE a.kind = "finite" ->
         Decimal(a.val.sgn = 1 /\ ~FIsZero(a.val), FixedDigits[a.val.man, a.val.exp, d], d)
    [] a.kind = "NaN" -> Word("NaN")
    [] a.kind = "Infinity" -> Word("Infinity")
    [] a.kind = "-Infinity" -> Word("-Infinity")

---------------------------------------------------------------------------
(* Callers.  The engine keeps no state; what is observable is a call: the  *)
(* function invoked, its arguments and the value it returns.  A caller     *)
(* invokes one function at a time and takes the value before the next      *)
(* call.  origin holds the payment a quote was derived from while the      *)
(* derived token amount is converted back at the same supply.              *)

VARIABLES fn, args, ret, origin

\* The trade component on screen (TradePanel or QuickTradeModal): its props
\* token and onTradeComplete, the wallet address of useWallet, and its state
VARIABLES panel, token, onTradeComplete, address,
          mode, amount, trustAmount, isLoading, error, userBalance

\* TradePanel: the fetchBalance effects whose getUserTokenBalance is pending
VARIABLES fetching

\* handleTrade in flight: the call it awaits, its locals, the transaction it
\* submitted, what it has done so far, and the number of timers of onClose
\* that finished trades of the modal have set and that have not fired
VARIABLES pc, tokenInfo, currentPrice, tx, log, closeTimer

\* the calls of handleTrade that modals closed meanwhile have left in flight,
\* each with what it reads of the props of its closure, its locals and the
\* request it awaits; and the calls of handleTradeComplete of the token view whose
\* fetchAllTokens is pending, each with the query it awaits and the row read
VARIABLES closed, refreshes

\* the field the user typed into last, while the other one shows its conversion
VARIABLES typed

\* the ledger's circulating supply of the token; the token's meme_tokens row
\* and whether the table holds it (row is a placeholder while it does not);
\* how far the recalculation script has run; for each caller of a persistence
\* function the request it awaits; and the call the database answered last
VARIABLES chainSupply, row, inTable, script, requests, dbCall

\* web3-provider's module flag isConnecting; for each component that uses
\* useWallet the hook's own isConnecting state and its error; and the calls of
\* connect in flight, a bag of records: the hook that made the call, where
\* the call stands, and what its await was rejected with
VARIABLES isConnecting, connects, calls

\* trackTokenHolder: where the call stands, the balance it read, and the
\* holders value of the row when it went to write
VARIABLES tracking

\* the state of useWallet (address, balance, isConnecting, error) and where
\* its checkConnection and its connect stand
VARIABLES wallet

\* a call of a persistence function of lib/tokens by a caller that awaits it
\* inside try/catch: the function, where it stands, the failure it met and
\* at which step, what it returned, and where the caller stands
VARIABLES persist

engineVars == <<fn, args, ret, origin>>
propVars == <<panel, token, onTradeComplete>>
fieldVars == <<mode, amount, trustAmount>>
flightVars == <<pc, tokenInfo, currentPrice, tx, log, closeTimer, closed, refreshes>>
balanceVars == <<userBalance, fetching>>
storeVars == <<chainSupply, row, inTable, script, requests, dbCall>>
walletVars == <<isConnecting, connects, calls>>
serviceVars == <<tracking, wallet, persist>>
tradeVars ==
  <<propVars, address, fieldVars, isLoading, error, balanceVars, flightVars, typed,
    storeVars>>

vars == <<engineVars, tradeVars, walletVars, serviceVars>>

\* what the single-caller engine actions leave alone
outsideEngine == <<tradeVars, walletVars, serviceVars>>

\* what the trade components, the ledger and the database leave alone
outsideTrade == <<engineVars, walletVars, serviceVars>>

MaxSupplySteps == 17
MaxAmount == 3

SupplyGrid == 5 * 10^7

\* supplies on a grid of 50,000,000 up to and past the allocation, supplies
\* next to the grid points 0 and 700,000,000, a fractional and negative ones
Supplies ==
  {FromInt[k * SupplyGrid] : k \in 0..MaxSupplySteps}
    \cup {FromInt[1], FromDecimal[5, 1], FromInt[123456789],
          FromInt[699999999], FromInt[700000001],
          FromInt[-1], FromInt[-300000000]}

\* whole and tenth amounts of either sign, and 1000
Amounts ==
  {FromDecimal[n, d] : n \in (0 - MaxAmount)..MaxAmount, d \in {0, 1}}
    \cup {FromInt[1000]}

MaxConnects == 2

\* calls of connect in flight at once
MaxCalls == 2

\* timers of onClose pending at once, and fetchBalance effects pending at once
MaxTimers == 2
MaxFetches == 1

\* calls of handleTrade of closed modals in flight at once, and calls of
\* handleTradeComplete pending at once
MaxClosed == 1
MaxRefreshes == 2

\* no component on screen: the props are placeholders
NoToken ==
  [currentPrice |-> Undefined, currentSupply |-> Undefined, isCompleted |-> FALSE,
   contractAddress |-> ""]

\* getTokenInfoWithRetry has returned nothing (null)
NoTokenInfo == [present |-> FALSE, currentSupply |-> EmptyText, completed |-> FALSE]

\* the components that use useWallet
Connects == 1..MaxConnects

\* a hook as useState initialises it
NoConnect == [isConnecting |-> FALSE, error |-> "null"]

\* trackTokenHolder not called
\* useWallet as mounted: the initial states, checkConnection at its first await
NoWallet ==
  [address |-> "null", balance |-> "0", isConnecting |-> FALSE, error |-> "null",
   checkConnection |-> "getConnectedAddress", connect |-> EmptyBag]

\* the callers of the persistence functions whose calls may overlap: the
\* post-trade update of a trade component and the refresh of the token view
PersistCallers == {"handleTrade", "handleTradeComplete"}

\* no persistence function called yet
NoPersist ==
  [fn |-> "none", pc |-> "idle", failure |-> "none", at |-> "", ret |-> "pending",
   caller |-> "idle", link |-> "", logged |-> <<>>]

NoTracking == [pc |-> "idle", balance |-> EmptyText, before |-> Zero, wrote |-> FALSE]

\* no call made
NoCall == [name |-> "none", args |-> <<>>]

\* The token's row as createTokenInDatabase inserted it at launch: the initial
\* price, no supply, and the market cap of the earlier valuation, price times
\* the supply issued
CreatedRow ==
  [current_price |-> INITIAL_PRICE, current_supply |-> Zero, market_cap |-> Zero,
   holders |-> Zero]

\* the updates argument with every field left out
NoUpdates ==
  [currentPrice |-> Undefined, currentSupply |-> Undefined, marketCap |-> Undefined,
   holders |-> Undefined, isCompleted |-> "undefined"]

\* the callers of the persistence functions that write the table
Requesters == {"handleTrade", "trackTokenHolder", "caller A", "caller B"}

\* no request pending
NoRequest == [name |-> "none", contractAddress |-> "", updates |-> NoUpdates]

\* no call answered yet
NoDbCall ==
  [name |-> "none", contractAddress |-> "", updates |-> NoUpdates,
   before |-> CreatedRow, matched |-> FALSE, ok |-> FALSE]

Init ==
  /\ fn = "none"
  /\ args = <<>>
  /\ ret = Zero
  /\ origin = <<>>
  /\ panel = "none"
  /\ token = NoToken
  /\ onTradeComplete = FALSE
  /\ address = "null"
  /\ mode = "buy"
  /\ amount = EmptyText
  /\ trustAmount = EmptyText
  /\ isLoading = FALSE
  /\ error = ""
  /\ userBalance = Typed(0, 0)
  /\ fetching = 0
  /\ pc = "idle"
  /\ tokenInfo = NoTokenInfo
  /\ currentPrice = EmptyText
  /\ tx = NoCall
  /\ log = <<>>
  /\ closeTimer = 0
  /\ closed = <<>>
  /\ refreshes = <<>>
  /\ typed = "none"
  /\ chainSupply = 0
  /\ row = CreatedRow
  /\ inTable = TRUE
  /\ script = "not run"
  /\ requests = [c \in Requesters |-> NoRequest]
  /\ dbCall = NoDbCall
  /\ isConnecting = FALSE
  /\ connects = [c \in Connects |-> NoConnect]
  /\ calls = EmptyBag
  /\ tracking = NoTracking
  /\ wallet = NoWallet
  /\ persist = [c \in PersistCallers |-> NoPersist]

PriceCall(s) ==
  /\ fn = "none"
  /\ fn' = "calculateBondingCurvePrice"
  /\ args' = <<s>>
  /\ ret' = calculateBondingCurvePrice(s)
  /\ UNCHANGED <<origin, outsideEngine>>

ProgressCall(s) ==
  /\ fn = "none"
  /\ fn' = "calculateBondingCurveProgress"
  /\ args' = <<s>>
  /\ ret' = calculateBondingCurveProgress(s)
  /\ UNCHANGED <<origin, outsideEngine>>

TokensFromTrustCall(a, s) ==
  /\ fn = "none"
  /\ fn' = "calculateTokensFromTrust"
  /\ args' = <<a, s>>
  /\ ret' = calculateTokensFromTrust(a, s)
  /\ UNCHANGED <<origin, outsideEngine>>

TrustFromTokensCall(a, s) ==
  /\ fn = "none"
  /\ fn' = "calculateTrustFromTokens"
  /\ args' = <<a, s>>
  /\ ret' = calculateTrustFromTokens(a, s)
  /\ UNCHANGED <<origin, outsideEngine>>

TrustFromSellCall(a, s) ==
  /\ fn = "none"
  /\ fn' = "calculateTrustFromSell"
  /\ args' = <<a, s>>
  /\ ret' = calculateTrustFromSell(a, s)
  /\ UNCHANGED <<origin, outsideEngine>>

MarketCapCall(s) ==
  /\ fn = "none"
  /\ fn' = "calculateMarketCap"
  /\ args' = <<s>>
  /\ ret' = calculateMarketCap(s)
  /\ UNCHANGED <<origin, outsideEngine>>

\* the token amount quoted for a payment is converted back at the same supply
QuoteBack ==
  /\ fn = "calculateTokensFromTrust"
  /\ origin = <<>>
  /\ fn' = "calculateTrustFromTokens"
  /\ args' = <<ret, args[2]>>
  /\ ret' = calculateTrustFromTokens(ret, args[2])
  /\ origin' = <<args[1]>>
  /\ UNCHANGED outsideEngine

\* the caller has taken the value
Return ==
  /\ fn # "none"
  /\ fn' = "none"
  /\ args' = <<>>
  /\ ret' = Zero
  /\ origin' = <<>>
  /\ UNCHANGED outsideEngine

Next ==
  \/ \E s \in Supplies : PriceCall(s)
  \/ \E s \in Supplies : ProgressCall(s)
  \/ \E a \in Amounts, s \in Supplies : TokensFromTrustCall(a, s)
  \/ \E a \in Amounts, s \in Supplies : TrustFromTokensCall(a, s)
  \/ \E a \in Amounts, s \in Supplies : TrustFromSellCall(a, s)
  \/ \E s \in Supplies : MarketCapCall(s)
  \/ QuoteBack
  \/ Return

Spec == Init /\ [][Next]_vars

---------------------------------------------------------------------------
(* The trade components TradePanel and QuickTradeModal.  A handler runs   *)
(* to its end or to its next await in one step.  The fields, the mode      *)
(* buttons and the trade button are disabled while isLoading, so no other  *)
(* handler of the component runs while handleTrade is in flight; the       *)
(* wallet's events, the close button of the modal and its timers come at   *)
(* any moment.  One component is followed on screen at a time, beside the  *)
(* calls of handleTrade that modals closed before have left in flight.     *)

Panels == {"TradePanel", "QuickTradeModal"}

\* price and supply of the token as its row had them when it was fetched, or a
\* row without price
ShownPrices ==
  {<<Undefined, Fin(FromInt[0])>>,
   <<Fin(FromInt[0]), Fin(FromInt[0])>>,
   <<Fin(FromDecimal[1533, 7]), Fin(FromInt[0])>>,
   <<Fin(FromDecimal[3066, 7]), Fin(FromInt[100000000])>>}

\* tokens in trading, one of them without a contract address, and one whose
\* launch has completed
TokenProps ==
  {[currentPrice |-> ps[1], currentSupply |-> ps[2], isCompleted |-> FALSE,
    contractAddress |-> "0xToken"] : ps \in ShownPrices}
    \cup {[currentPrice |-> Fin(FromDecimal[1533, 7]),
           currentSupply |-> Fin(FromInt[0]), isCompleted |-> FALSE,
           contractAddress |-> ""],
          [currentPrice |-> Fin(FromDecimal[3066, 7]),
           currentSupply |-> Fin(FromInt[100000000]), isCompleted |-> TRUE,
           contractAddress |-> "0xToken"]}

\* what the number fields hand to the handlers: nothing, or a valid numeral
Entered == {EmptyText, Typed(5, 0), Typed(0, 0), Typed(-1, 0), Typed(1, 3)}

\* log, tx and dbCall tell what the handleTrade under way or just ended did;
\* they are cleared when the user does the next thing
Forget ==
  /\ log' = <<>>
  /\ tx' = NoCall
  /\ dbCall' = NoDbCall

restOfFlight == <<pc, tokenInfo, currentPrice, closeTimer, closed, refreshes>>
restOfStore == <<chainSupply, row, inTable, script, requests>>

\* The calls of handleTrade in flight: 0 is the one of the component on
\* screen, the others are those of modals closed while they awaited.  Each
\* runs with the props of the render it was called in, of which the steps
\* after the submission read token.contractAddress, the first argument of
\* the transaction submitted, and onTradeComplete.
Flights == 0..Len(closed)

Flight(i) ==
  IF i = 0
    THEN [panel |-> panel,
          contractAddress |-> IF pc = "idle" THEN token.contractAddress ELSE tx.args[1],
          onTradeComplete |-> onTradeComplete, pc |-> pc, tokenInfo |-> tokenInfo,
          currentPrice |-> currentPrice, log |-> log,
          request |-> requests["handleTrade"]]
    ELSE closed[i]

\* the calls of closed modals without call i, which has ended
Ended(i) == SubSeq(closed, 1, i - 1) \o SubSeq(closed, i + 1, Len(closed))

\* The component is put on screen.  QuickTradeModal reads
\* token.currentPrice.toFixed(8) as it renders, so it shows no token without
\* a price, and starts in the mode of the button that opened it; TradePanel
\* renders (token.currentPrice || 0.0001533).toFixed(8) and starts in "buy".
\* The component's useWallet starts with no address, with which the
\* fetchBalance effect of TradePanel sets "0".  The card opens its modal at
\* any moment, also while the handleTrade of a modal closed before awaits.
Mount(p, tk, cb, m) ==
  /\ panel = "none"
  /\ (p = "QuickTradeModal" => tk.currentPrice.kind # "undefined")
  /\ (p = "TradePanel" => m = "buy")
  /\ panel' = p
  /\ token' = tk
  /\ onTradeComplete' = cb
  /\ address' = "null"
  /\ mode' = m
  /\ amount' = EmptyText
  /\ trustAmount' = EmptyText
  /\ isLoading' = FALSE
  /\ error' = ""
  /\ userBalance' = Typed(0, 0)
  /\ typed' = "none"
  /\ Forget
  /\ UNCHANGED <<fetching, restOfFlight, restOfStore, outsideTrade>>

\* useWallet of the component: checkConnection, the accountsChanged listener,
\* connect and disconnect set the address, at any moment.  In TradePanel the
\* change runs the fetchBalance effect: with an address and a contract address
\* it awaits getUserTokenBalance, otherwise it sets "0".
AccountsChanged(a) ==
  /\ panel # "none"
  /\ address # a
  /\ address' = a
  /\ IF panel = "TradePanel" /\ a # "null" /\ token.contractAddress # ""
       THEN /\ fetching < MaxFetches
            /\ fetching' = fetching + 1
            /\ UNCHANGED userBalance
       ELSE /\ userBalance' = IF panel = "TradePanel" THEN Typed(0, 0) ELSE userBalance
            /\ UNCHANGED fetching
  /\ IF pc = "idle" THEN Forget ELSE UNCHANGED <<log, tx, dbCall>>
  /\ UNCHANGED <<propVars, fieldVars, isLoading, error, typed,
                 restOfFlight, restOfStore, outsideTrade>>

\* getUserTokenBalance of a fetchBalance effect resolves: setUserBalance
FetchBalanceResolves(balance) ==
  /\ fetching > 0
  /\ fetching' = fetching - 1
  /\ userBalance' = balance
  /\ UNCHANGED <<propVars, address, fieldVars, isLoading, error, flightVars, typed,
                 storeVars, outsideTrade>>

\* getUserTokenBalance of a fetchBalance effect rejects: nothing catches it
FetchBalanceRejects ==
  /\ fetching > 0
  /\ fetching' = fetching - 1
  /\ UNCHANGED <<propVars, address, fieldVars, isLoading, error, userBalance,
                 flightVars, typed, storeVars, outsideTrade>>

SetMode(m) ==
  /\ panel # "none"
  /\ ~isLoading
  /\ mode # m
  /\ mode' = m
  /\ Forget
  /\ UNCHANGED <<propVars, address, amount, trustAmount, isLoading, error,
                 balanceVars, typed, restOfFlight, restOfStore, outsideTrade>>

\* the TRUST amount shown with two decimals
TradePanelTrust_TwoPlaces(value, tk) ==
  ToFixed(JsMul(ParseFloat(value), JsOr(tk.currentPrice, Fin(FromDecimal[1533, 7]))), 2)

\* TradePanel: the TRUST amount shown for the token amount typed
TradePanelTrust(value, tk) ==
  ToFixed(JsMul(ParseFloat(value), JsOr(tk.currentPrice, Fin(FromDecimal[1533, 7]))), 6)

\* TradePanel: the token amount shown for the TRUST amount typed
TradePanelTokens(value, tk) ==
  ToFixed(JsDiv(ParseFloat(value), JsOr(tk.currentPrice, Fin(FromDecimal[1533, 7]))), 6)

\* QuickTradeModal: the same two conversions
QuickTradeTrust(value, tk) ==
  NumberToString(JsMul(ParseFloat(value), tk.currentPrice))

QuickTradeTokens(value, tk) ==
  NumberToString(JsDiv(ParseFloat(value), tk.currentPrice))

HandleAmountChange(value) ==
  /\ panel # "none"
  /\ ~isLoading
  /\ amount' = value
  /\ trustAmount' =
       IF ~TextTruthy(value) THEN EmptyText
       ELSE IF panel = "TradePanel" THEN TradePanelTrust(value, token)
       ELSE QuickTradeTrust(value, token)
  /\ typed' = "amount"
  /\ Forget
  /\ UNCHANGED <<propVars, address, mode, isLoading, error, balanceVars,
                 restOfFlight, restOfStore, outsideTrade>>

HandleTrustChange(value) ==
  /\ panel # "none"
  /\ ~isLoading
  /\ trustAmount' = value
  /\ amount' =
       IF ~TextTruthy(value) THEN EmptyText
       ELSE IF panel = "TradePanel" THEN TradePanelTokens(value, token)
       ELSE QuickTradeTokens(value, token)
  /\ typed' = "trust"
  /\ Forget
  /\ UNCHANGED <<propVars, address, mode, isLoading, error, balanceVars,
                 restOfFlight, restOfStore, outsideTrade>>

\* Math.floor of a finite double
FFloor[x \in Dyadic] ==
  IF FIsZero(x) \/ x.exp >= 0 THEN x
  ELSE IF BShl[BShr[x.man, 0 - x.exp], 0 - x.exp] = x.man
    THEN RoundToDouble[x.sgn, BShr[x.man, 0 - x.exp], 0]
  ELSE IF x.sgn = 0 THEN RoundToDouble[0, BShr[x.man, 0 - x.exp], 0]
  ELSE RoundToDouble[1, BAdd[BShr[x.man, 0 - x.exp], BOne], 0]

\* an update that stores the market cap the caller passed, when it passed one
UpdatedRow_PassedMarketCap(r, updates) ==
  [current_price |->
     IF updates.currentPrice.kind # "undefined" THEN updates.currentPrice.val
     ELSE r.current_price,
   current_supply |->
     IF updates.currentSupply.kind # "undefined" THEN FFloor[updates.currentSupply.val]
     ELSE r.current_supply,
   market_cap |->
     IF updates.marketCap.kind # "undefined" THEN updates.marketCap.val
     ELSE IF updates.currentSupply.kind # "undefined"
       THEN calculateMarketCap(updates.currentSupply.val)
     ELSE r.market_cap,
   holders |->
     IF updates.holders.kind # "undefined" THEN FFloor[updates.holders.val]
     ELSE r.holders]

\* updateTokenInDatabase: the row after the update with the fields of dbUpdates;
\* a field the caller left out of updates is undefined
UpdatedRow(r, updates) ==
  [current_price |->
     IF updates.currentPrice.kind # "undefined" THEN updates.currentPrice.val
     ELSE r.current_price,
   current_supply |->
     IF updates.currentSupply.kind # "undefined" THEN FFloor[updates.currentSupply.val]
     ELSE r.current_supply,
   market_cap |->
     IF updates.currentSupply.kind # "undefined"
       THEN calculateMarketCap(updates.currentSupply.val)
     ELSE r.market_cap,
   holders |->
     IF updates.holders.kind # "undefined" THEN FFloor[updates.holders.val]
     ELSE r.holders]

\* the checks without the one of trustAmount
ValidationError_NoTrustCheck(p, tk, addr, amt, trust) ==
  IF addr = "null" THEN "Please connect your wallet first"
  ELSE IF tk.isCompleted THEN "Trading is disabled - Token launch has been completed"
  ELSE IF ~TextTruthy(amt) \/ JsLeZero(ParseFloat(amt)) THEN "Please enter a valid amount"
  ELSE IF p = "TradePanel" /\ tk.contractAddress = "" THEN "Invalid token contract address"
  ELSE ""

\* handleTrade: the message of the first check that fails, "" when none does
ValidationError(p, tk, addr, amt, trust) ==
  IF addr = "null" THEN "Please connect your wallet first"
  ELSE IF tk.isCompleted THEN "Trading is disabled - Token launch has been completed"
  ELSE IF ~TextTruthy(amt) \/ JsLeZero(ParseFloat(amt)) THEN "Please enter a valid amount"
  ELSE IF ~TextTruthy(trust) \/ JsLeZero(ParseFloat(trust))
    THEN (IF p = "TradePanel"
            THEN "Invalid TRUST amount calculated. Please check your input."
            ELSE "Invalid TRUST amount. Please check your input.")
  ELSE IF p = "TradePanel" /\ tk.contractAddress = "" THEN "Invalid token contract address"
  ELSE ""

\* the transaction handleTrade submits
Transaction(m, tk, amt, trust) ==
  IF m = "buy"
    THEN [name |-> "buyTokens",
          args |-> <<tk.contractAddress, trust,
                     ToFixed(JsMul(ParseFloat(amt), Fin(FromDecimal[99, 2])), 6)>>]
    ELSE [name |-> "sellTokens", args |-> <<tk.contractAddress, amt>>]

\* handleTrade up to its first await: the checks, then the transaction.  A
\* trade of the modal ends with one more timer of onClose, of which at most
\* MaxTimers are followed, and a trade of TradePanel in the token view with
\* a call of handleTradeComplete, of which at most MaxRefreshes are followed.
HandleTrade ==
  /\ panel # "none"
  /\ pc = "idle"
  /\ (panel = "QuickTradeModal" => closeTimer + Len(closed) < MaxTimers)
  /\ ((panel = "TradePanel" /\ onTradeComplete) => Len(refreshes) < MaxRefreshes)
  /\ IF ValidationError(panel, token, address, amount, trustAmount) # ""
       THEN /\ error' = ValidationError(panel, token, address, amount, trustAmount)
            /\ log' = <<"invalid">>
            /\ tx' = NoCall
            /\ UNCHANGED <<isLoading, pc>>
       ELSE /\ isLoading' = TRUE
            /\ error' = ""
            /\ tx' = Transaction(mode, token, amount, trustAmount)
            /\ pc' = Transaction(mode, token, amount, trustAmount).name
            /\ log' = <<Transaction(mode, token, amount, trustAmount).name>>
  /\ dbCall' = NoDbCall
  /\ UNCHANGED <<propVars, address, fieldVars, balanceVars, typed, tokenInfo,
                 currentPrice, closeTimer, closed, refreshes, restOfStore,
                 outsideTrade>>

\* what an awaited call may throw: an Error with its message, or another value
Thrown == {[isError |-> TRUE, message |-> "user rejected the request"],
           [isError |-> FALSE, message |-> ""]}

\* A catch that clears the fields as the end of the try block does
Failed_ClearsFields(i, err, entry) ==
  /\ IF i = 0
       THEN /\ error' = IF err.isError THEN err.message
                        ELSE "Failed to " \o mode \o " tokens"
            /\ isLoading' = FALSE
            /\ pc' = "idle"
            /\ log' = Append(log, entry)
            /\ tokenInfo' = NoTokenInfo
            /\ currentPrice' = EmptyText
            /\ amount' = EmptyText
            /\ trustAmount' = EmptyText
            /\ UNCHANGED <<typed, closed>>
       ELSE /\ closed' = Ended(i)
            /\ UNCHANGED <<error, isLoading, pc, log, tokenInfo, currentPrice, amount,
                           trustAmount, typed>>
  /\ UNCHANGED <<closeTimer, requests>>

\* The outer catch and finally of handleTrade i.  The setters of a closed
\* modal set nothing: its call just ends.
Failed(i, err, entry) ==
  /\ IF i = 0
       THEN /\ error' = IF err.isError THEN err.message
                        ELSE "Failed to " \o mode \o " tokens"
            /\ isLoading' = FALSE
            /\ pc' = "idle"
            /\ log' = Append(log, entry)
            /\ tokenInfo' = NoTokenInfo
            /\ currentPrice' = EmptyText
            /\ UNCHANGED <<amount, trustAmount, typed, closed>>
       ELSE /\ closed' = Ended(i)
            /\ UNCHANGED <<error, isLoading, pc, log, tokenInfo, currentPrice, amount,
                           trustAmount, typed>>
  /\ UNCHANGED <<closeTimer, requests>>

\* The end of the try block and finally of handleTrade i: the fields are
\* cleared, and QuickTradeModal, closed or not, sets one more timer of onClose
Finished(i, entries) ==
  /\ IF i = 0
       THEN /\ amount' = EmptyText
            /\ trustAmount' = EmptyText
            /\ isLoading' = FALSE
            /\ pc' = "idle"
            /\ log' = log \o entries
            /\ tokenInfo' = NoTokenInfo
            /\ currentPrice' = EmptyText
            /\ typed' = "none"
            /\ requests' = [requests EXCEPT !["handleTrade"] = NoRequest]
            /\ UNCHANGED <<error, closed>>
       ELSE /\ closed' = Ended(i)
            /\ UNCHANGED <<amount, trustAmount, isLoading, pc, log, tokenInfo,
                           currentPrice, typed, requests, error>>
  /\ closeTimer' = IF Flight(i).panel = "QuickTradeModal" THEN closeTimer + 1
                   ELSE closeTimer

\* handleTrade i goes on to its next await, with its locals info and price and
\* the request it has made
Continue(i, next, entries, info, price, request) ==
  /\ IF i = 0
       THEN /\ pc' = next
            /\ log' = log \o entries
            /\ tokenInfo' = info
            /\ currentPrice' = price
            /\ requests' = [requests EXCEPT !["handleTrade"] = request]
            /\ UNCHANGED closed
       ELSE /\ closed' = [closed EXCEPT ![i] =
                            [@ EXCEPT !.pc = next, !.log = @ \o entries,
                                      !.tokenInfo = info, !.currentPrice = price,
                                      !.request = request]]
            /\ UNCHANGED <<pc, log, tokenInfo, currentPrice, requests>>
  /\ UNCHANGED <<amount, trustAmount, closeTimer, isLoading, error, typed>>

\* what no step of handleTrade after the checks touches
restOfTrade == <<panel, token, onTradeComplete, address, mode, tx, fetching, outsideTrade>>

\* what only the return of updateTokenInDatabase touches
restOfSync == <<chainSupply, row, inTable, script, dbCall, refreshes>>

\* buyTokens / sellTokens of handleTrade i resolves
SubmitResolves(i) ==
  /\ i \in Flights
  /\ Flight(i).pc \in {"buyTokens", "sellTokens"}
  /\ IF Flight(i).contractAddress # ""
       THEN Continue(i, IF Flight(i).panel = "TradePanel" THEN "getUserTokenBalance"
                        ELSE "getTokenInfoWithRetry",
                     <<"resolved">>, Flight(i).tokenInfo, Flight(i).currentPrice,
                     Flight(i).request)
       ELSE Finished(i, <<"resolved">>)
  /\ UNCHANGED <<restOfTrade, userBalance, restOfSync>>

\* buyTokens / sellTokens of handleTrade i rejects
SubmitRejects(i, err) ==
  /\ i \in Flights
  /\ Flight(i).pc \in {"buyTokens", "sellTokens"}
  /\ Failed(i, err, "rejected")
  /\ UNCHANGED <<restOfTrade, userBalance, restOfSync>>

\* TradePanel: getUserTokenBalance resolves
BalanceResolves(balance) ==
  /\ pc = "getUserTokenBalance"
  /\ userBalance' = balance
  /\ Continue(0, "getTokenInfoWithRetry", <<"balance">>, tokenInfo, currentPrice,
              requests["handleTrade"])
  /\ UNCHANGED <<restOfTrade, restOfSync>>

\* TradePanel: getUserTokenBalance rejects, outside the inner try
BalanceRejects(err) ==
  /\ pc = "getUserTokenBalance"
  /\ Failed(0, err, "balance threw")
  /\ UNCHANGED <<restOfTrade, userBalance, restOfSync>>

\* The ledger.  Its supply moves with every trade executed on it, the
\* component's own and those of other traders.  getTokenInfoWithRetry reports
\* the supply and getCurrentPrice the price of the contract's curve at the
\* supply of the moment, each as a string.
ChainSupplies == {0, 100000000, 200000000}

LedgerSupplyText(s) == Typed(s, 0)
LedgerPriceText(s) == NumberToString(Fin(calculateBondingCurvePrice(FromInt[s])))

LedgerTrade(s) ==
  /\ s # chainSupply
  /\ chainSupply' = s
  /\ UNCHANGED <<propVars, address, fieldVars, isLoading, error, balanceVars,
                 flightVars, typed, row, inTable, script, requests, dbCall,
                 outsideTrade>>

\* getTokenInfoWithRetry of handleTrade i resolves, with the token's state
\* (the supply, and whether the launch has completed) or with nothing
TokenInfoResolves(i, present, completed) ==
  /\ i \in Flights
  /\ Flight(i).pc = "getTokenInfoWithRetry"
  /\ Continue(i, "getCurrentPrice",
              <<IF present THEN "tokenInfo" ELSE "no tokenInfo">>,
              IF present
                THEN [present |-> TRUE,
                      currentSupply |-> LedgerSupplyText(chainSupply),
                      completed |-> completed]
                ELSE NoTokenInfo,
              Flight(i).currentPrice, Flight(i).request)
  /\ UNCHANGED <<restOfTrade, userBalance, restOfSync>>

\* getTokenInfoWithRetry of handleTrade i rejects: the inner catch skips the
\* update
TokenInfoRejects(i) ==
  /\ i \in Flights
  /\ Flight(i).pc = "getTokenInfoWithRetry"
  /\ Finished(i, <<"tokenInfo threw">>)
  /\ UNCHANGED <<restOfTrade, userBalance, restOfSync>>

\* the argument handleTrade passes to updateTokenInDatabase
TradeUpdates(info, price) ==
  [currentPrice |-> ParseFloat(price), currentSupply |-> ParseFloat(info.currentSupply),
   marketCap |-> Undefined, holders |-> Undefined,
   isCompleted |-> IF info.completed THEN "true" ELSE "false"]

\* the update is made although getTokenInfoWithRetry returned nothing: the
\* supply 0 stands in
PriceResolves_NoInfoCheck(i, present) ==
  /\ i \in Flights
  /\ Flight(i).pc = "getCurrentPrice"
  /\ IF present
       THEN Continue(i, "updateTokenInDatabase",
                     <<"currentPrice", "updateTokenInDatabase">>,
                     Flight(i).tokenInfo, LedgerPriceText(chainSupply),
                     [name |-> "updateTokenInDatabase",
                      contractAddress |-> Flight(i).contractAddress,
                      updates |->
                        [currentPrice |-> ParseFloat(LedgerPriceText(chainSupply)),
                         currentSupply |->
                           IF Flight(i).tokenInfo.present
                             THEN ParseFloat(Flight(i).tokenInfo.currentSupply)
                             ELSE ParseFloat(Typed(0, 0)),
                         marketCap |-> Undefined, holders |-> Undefined,
                         isCompleted |-> "false"]])
       ELSE Finished(i, <<"no currentPrice">>)
  /\ UNCHANGED <<restOfTrade, userBalance, restOfSync>>

\* getCurrentPrice of handleTrade i resolves, with the price or with nothing;
\* with both values at hand updateTokenInDatabase is called and runs to its
\* await of the request
PriceResolves(i, present) ==
  /\ i \in Flights
  /\ Flight(i).pc = "getCurrentPrice"
  /\ IF Flight(i).tokenInfo.present /\ present
       THEN Continue(i, "updateTokenInDatabase",
                     <<"currentPrice", "updateTokenInDatabase">>,
                     Flight(i).tokenInfo, LedgerPriceText(chainSupply),
                     [name |-> "updateTokenInDatabase",
                      contractAddress |-> Flight(i).contractAddress,
                      updates |-> TradeUpdates(Flight(i).tokenInfo,
                                               LedgerPriceText(chainSupply))])
       ELSE Finished(i, <<IF present THEN "currentPrice" ELSE "no currentPrice">>)
  /\ UNCHANGED <<restOfTrade, userBalance, restOfSync>>

\* getCurrentPrice of handleTrade i rejects
PriceRejects(i) ==
  /\ i \in Flights
  /\ Flight(i).pc = "getCurrentPrice"
  /\ Finished(i, <<"currentPrice threw">>)
  /\ UNCHANGED <<restOfTrade, userBalance, restOfSync>>

\* The database answers a request and the function returns to its caller:
\* with an error (or after an exception) nothing is written and the function
\* returns false or null; otherwise the statement has run on the table.  An
\* update changes the row of its contract address if there is one.
Statement(request, ok) ==
  /\ row' =
       IF ~ok THEN row
       ELSE CASE request.name = "updateTokenInDatabase" ->
                   IF inTable /\ request.contractAddress = "0xToken"
                     THEN UpdatedRow(row, request.updates)
                     ELSE row
              [] request.name = "createTokenInDatabase" ->
                   IF inTable THEN row ELSE CreatedRow
              [] OTHER -> CreatedRow
  /\ inTable' =
       IF ~ok THEN inTable
       ELSE CASE request.name = "updateTokenInDatabase" -> inTable
              [] request.name = "createTokenInDatabase" -> TRUE
              [] OTHER -> FALSE
  /\ dbCall' = [name |-> request.name,
                contractAddress |-> request.contractAddress,
                updates |-> request.updates, before |-> row,
                matched |-> (ok /\ inTable /\ request.contractAddress = "0xToken"),
                ok |-> ok]

\* the request of caller c is answered
Answered(c, ok) ==
  /\ requests[c].name # "none"
  /\ Statement(requests[c], ok)
  /\ requests' = [requests EXCEPT ![c] = NoRequest]

\* no row read yet
NoRefresh == [pc |-> "meme_tokens", row |-> CreatedRow, contractAddress |-> ""]

\* handleTradeComplete of BondingCurveView, which TradePanel calls as
\* onTradeComplete, up to the first await of fetchAllTokens, with the token
\* of the render the trade was called in; the callback of the card, which
\* QuickTradeModal calls, sets nothing of the modal
HandleTradeComplete(f) ==
  refreshes' = IF f.onTradeComplete /\ f.panel = "TradePanel"
                 THEN Append(refreshes,
                             [NoRefresh EXCEPT !.contractAddress = f.contractAddress])
                 ELSE refreshes

\* updateTokenInDatabase returns to handleTrade i, true after the statement
\* has run, false after an error; onTradeComplete is called if it was passed
UpdateReturns(i, ok) ==
  /\ i \in Flights
  /\ Flight(i).pc = "updateTokenInDatabase"
  /\ Statement(Flight(i).request, ok)
  /\ HandleTradeComplete(Flight(i))
  /\ Finished(i, IF Flight(i).onTradeComplete THEN <<"updated", "onTradeComplete">>
                 ELSE <<"updated">>)
  /\ UNCHANGED <<restOfTrade, userBalance, chainSupply, script>>

\* supabaseToToken: the token fetchAllTokens returns for the row; the row has
\* no column for the completed launch and the token no isCompleted, which the
\* components read as false
RowToken(r, contractAddress) ==
  [currentPrice |-> Fin(r.current_price), currentSupply |-> Fin(r.current_supply),
   isCompleted |-> FALSE, contractAddress |-> contractAddress]

\* the calls of handleTradeComplete without call k, which has ended
Refreshed(k) == SubSeq(refreshes, 1, k - 1) \o SubSeq(refreshes, k + 1, Len(refreshes))

\* fetchAllTokens of call k: the query of meme_tokens is answered.  With an
\* error or no rows it returns [] and handleTradeComplete finds no token;
\* otherwise the rows are read and the query of user_profiles is awaited.
RefreshTokensAnswered(k, ok) ==
  /\ k \in 1..Len(refreshes)
  /\ refreshes[k].pc = "meme_tokens"
  /\ refreshes' = IF ok /\ inTable
                    THEN [refreshes EXCEPT ![k] = [@ EXCEPT !.pc = "user_profiles",
                                                             !.row = row]]
                    ELSE Refreshed(k)
  /\ UNCHANGED <<propVars, address, fieldVars, isLoading, error, balanceVars, pc,
                 tokenInfo, currentPrice, tx, log, closeTimer, closed, typed,
                 storeVars, outsideTrade>>

\* setToken of BondingCurveView, or the card rendering its modal with another
\* token: the component is rendered with tk and keeps its fields.  In
\* TradePanel another contract address runs the fetchBalance effect, which
\* awaits getUserTokenBalance with an address and a contract address and
\* sets "0" otherwise.
SetToken(tk) ==
  /\ token' = tk
  /\ IF panel = "TradePanel" /\ tk.contractAddress # token.contractAddress
       THEN IF address # "null" /\ tk.contractAddress # ""
              THEN /\ fetching < MaxFetches
                   /\ fetching' = fetching + 1
                   /\ UNCHANGED userBalance
              ELSE /\ userBalance' = Typed(0, 0)
                   /\ UNCHANGED fetching
       ELSE UNCHANGED <<userBalance, fetching>>

\* fetchAllTokens of call k: the query of user_profiles is answered, with
\* profiles or with an error, which is not looked at, or it throws.
\* fetchAllTokens returns the tokens of the rows read, or [] from its catch,
\* and handleTradeComplete sets the token of its contract address, if it
\* finds it, as the token of the view, which TradePanel is shown from then
\* on with the fields as they are.
RefreshProfilesAnswered(k, thrown) ==
  /\ k \in 1..Len(refreshes)
  /\ refreshes[k].pc = "user_profiles"
  /\ refreshes' = Refreshed(k)
  /\ IF panel = "TradePanel" /\ ~thrown /\ refreshes[k].contractAddress = "0xToken"
       THEN SetToken(RowToken(refreshes[k].row, "0xToken"))
       ELSE UNCHANGED <<token, userBalance, fetching>>
  /\ UNCHANGED <<panel, onTradeComplete, address, fieldVars, isLoading, error,
                 pc, tokenInfo, currentPrice, tx, log, closeTimer, closed,
                 typed, storeVars, outsideTrade>>

\* The parent renders the component with another token: the effect of
\* BondingCurveView on initialToken calls setToken(initialToken), and the
\* card hands QuickTradeModal the token it was rendered with itself.  A
\* handleTrade or handleTradeComplete in flight goes on with the token of
\* the render it was called in.
TokenChanges(tk) ==
  /\ panel # "none"
  /\ tk # token
  /\ (panel = "QuickTradeModal" => tk.currentPrice.kind # "undefined")
  /\ SetToken(tk)
  /\ UNCHANGED <<panel, onTradeComplete, address, fieldVars, isLoading, error,
                 flightVars, typed, storeVars, outsideTrade>>

\* The modal leaves the screen, and its state and its useWallet with it.  A
\* handleTrade in flight goes on with the props it was called with; at most
\* MaxClosed such calls are followed at once.
Unmount ==
  /\ pc # "idle" => Len(closed) < MaxClosed
  /\ closed' = IF pc = "idle" THEN closed ELSE Append(closed, Flight(0))
  /\ requests' = [requests EXCEPT !["handleTrade"] = NoRequest]
  /\ panel' = "none"
  /\ token' = NoToken
  /\ onTradeComplete' = FALSE
  /\ address' = "null"
  /\ mode' = "buy"
  /\ amount' = EmptyText
  /\ trustAmount' = EmptyText
  /\ isLoading' = FALSE
  /\ error' = ""
  /\ typed' = "none"
  /\ pc' = "idle"
  /\ tokenInfo' = NoTokenInfo
  /\ currentPrice' = EmptyText
  /\ Forget
  /\ UNCHANGED <<balanceVars, refreshes, chainSupply, row, inTable, script,
                 outsideTrade>>

\* QuickTradeModal: the close button calls onClose; the timers set by earlier
\* trades stay pending
OnClose ==
  /\ panel = "QuickTradeModal"
  /\ Unmount
  /\ UNCHANGED closeTimer

\* a timer set by a finished trade fires: onClose, which closes the modal on
\* screen, if there is one
TimerFires ==
  /\ closeTimer > 0
  /\ closeTimer' = closeTimer - 1
  /\ IF panel = "QuickTradeModal"
       THEN Unmount
       ELSE UNCHANGED <<propVars, address, fieldVars, isLoading, error, balanceVars,
                        pc, tokenInfo, currentPrice, tx, log, closed, refreshes, typed,
                        storeVars, outsideTrade>>

\* Callers of the persistence functions besides handleTrade and
\* trackTokenHolder, whose calls may overlap.  A call runs to the await of its
\* request; the database answers the pending requests in any order.
OtherCallers == {"caller A", "caller B"}

\* updateTokenInDatabase called by c, up to its await
UpdateTokenInDatabase(c, contractAddress, updates) ==
  /\ requests[c].name = "none"
  /\ requests' = [requests EXCEPT ![c] =
                    [name |-> "updateTokenInDatabase",
                     contractAddress |-> contractAddress, updates |-> updates]]
  /\ UNCHANGED <<propVars, address, fieldVars, isLoading, error, balanceVars,
                 flightVars, typed, chainSupply, row, inTable, script, dbCall,
                 outsideTrade>>

\* deleteAllTokens called by c, up to its await
DeleteAllTokens(c) ==
  /\ requests[c].name = "none"
  /\ requests' = [requests EXCEPT ![c] =
                    [name |-> "deleteAllTokens", contractAddress |-> "",
                     updates |-> NoUpdates]]
  /\ UNCHANGED <<propVars, address, fieldVars, isLoading, error, balanceVars,
                 flightVars, typed, chainSupply, row, inTable, script, dbCall,
                 outsideTrade>>

\* createTokenInDatabase called by c for the token, up to its await
CreateTokenInDatabase(c) ==
  /\ requests[c].name = "none"
  /\ requests' = [requests EXCEPT ![c] =
                    [name |-> "createTokenInDatabase", contractAddress |-> "0xToken",
                     updates |-> NoUpdates]]
  /\ UNCHANGED <<propVars, address, fieldVars, isLoading, error, balanceVars,
                 flightVars, typed, chainSupply, row, inTable, script, dbCall,
                 outsideTrade>>

\* the request of c is answered and the function returns to c
DatabaseAnswers(c, ok) ==
  /\ c \in OtherCallers
  /\ Answered(c, ok)
  /\ UNCHANGED <<propVars, address, fieldVars, isLoading, error, balanceVars,
                 flightVars, typed, chainSupply, script, outsideTrade>>

\* 0.0001533 * 700000000 of the script, a product of SQL numerals: 107310
RecalculatedInitialCap ==
  FDiv[FMul[FromInt[1533], FromInt[700000000]], FromInt[10^7]]

\* the script has run to its end at least once
Migrated == script \in {"run", "statement 1 run again"}

\* the recalculation script, first statement, on the token's row; the script
\* may be run again after it has run
MigrationStatement1 ==
  /\ script \in {"not run", "run"}
  /\ script' = IF script = "not run" THEN "statement 1 run" ELSE "statement 1 run again"
  /\ row' = IF inTable /\ FLt(Zero, row.current_supply)
              THEN [row EXCEPT !.market_cap = FMul[row.current_price, FromInt[700000000]]]
              ELSE row
  /\ UNCHANGED <<propVars, address, fieldVars, isLoading, error, balanceVars,
                 flightVars, typed, chainSupply, inTable, requests, dbCall,
                 outsideTrade>>

\* the second statement, committed by itself after the first
MigrationStatement2 ==
  /\ script \in {"statement 1 run", "statement 1 run again"}
  /\ script' = "run"
  /\ row' = IF inTable /\ FIsZero(row.current_supply)
              THEN [row EXCEPT !.market_cap = RecalculatedInitialCap]
              ELSE row
  /\ UNCHANGED <<propVars, address, fieldVars, isLoading, error, balanceVars,
                 flightVars, typed, chainSupply, inTable, requests, dbCall,
                 outsideTrade>>

Balances == {Typed(5, 0)}

\* The fields of the two components under every token and entry: what the
\* handlers show for what is typed, and what the fields show when the parent
\* hands the component another token.
NextQuote ==
  \/ \E p \in Panels, tk \in TokenProps, m \in {"buy", "sell"} : Mount(p, tk, TRUE, m)
  \/ \E tk \in TokenProps : TokenChanges(tk)
  \/ \E v \in Entered : HandleAmountChange(v)
  \/ \E v \in Entered : HandleTrustChange(v)
  \/ OnClose

SpecQuote == Init /\ [][NextQuote]_vars

\* the tokens traded: in trading with and without a contract address, and
\* one whose launch has completed
TradeTokens ==
  {tk \in TokenProps : tk.currentPrice \in {Fin(FromDecimal[1533, 7])} \/ tk.isCompleted}

\* the entries traded with: a token amount, one whose TRUST value rounds to
\* 0.000000, none and 0
TradeEntries == {EmptyText, Typed(5, 0), Typed(0, 0), Typed(1, 3)}

\* The token as the card and the view get it
TradedToken ==
  [currentPrice |-> Fin(FromDecimal[1533, 7]), currentSupply |-> Fin(FromInt[0]),
   isCompleted |-> FALSE, contractAddress |-> "0xToken"]

\* The token after trades that took its supply to 100,000,000
RaisedToken ==
  [currentPrice |-> Fin(FromDecimal[3066, 7]),
   currentSupply |-> Fin(FromInt[100000000]),
   isCompleted |-> FALSE, contractAddress |-> "0xToken"]

\* What handleTrade checks before it submits: the components under every
\* token, account and entry.  TokenCard and BondingCurveView pass
\* onTradeComplete always.  A submission is rejected or stays pending here.
NextChecks ==
  \/ \E p \in Panels, tk \in TradeTokens, m \in {"buy", "sell"} : Mount(p, tk, TRUE, m)
  \/ \E a \in {"null", "0xUser"} : AccountsChanged(a)
  \/ \E b \in Balances : FetchBalanceResolves(b)
  \/ FetchBalanceRejects
  \/ \E m \in {"buy", "sell"} : SetMode(m)
  \/ \E v \in TradeEntries : HandleAmountChange(v)
  \/ \E v \in {Typed(0, 0), Typed(1, 3)} : HandleTrustChange(v)
  \/ HandleTrade
  \/ \E i \in Flights, err \in Thrown : SubmitRejects(i, err)
  \/ OnClose

SpecChecks == Init /\ [][NextChecks]_vars

\* The calls of handleTrade with every outcome of what they await: a holder
\* sells in the modal of the card, closes it and opens it again at any
\* moment, and buys in the panel of the view, which refreshes the token.
\* The fetchBalance effect of the panel stays pending here.
NextTrade ==
  \/ \E tk \in {tk \in TradeTokens : ~tk.isCompleted} :
        Mount("QuickTradeModal", tk, TRUE, "sell")
  \/ Mount("TradePanel", TradedToken, TRUE, "buy")
  \/ AccountsChanged("0xUser")
  \/ HandleAmountChange(Typed(5, 0))
  \/ HandleTrade
  \/ \E i \in Flights : SubmitResolves(i)
  \/ \E i \in Flights, err \in Thrown : SubmitRejects(i, err)
  \/ \E b \in Balances : BalanceResolves(b)
  \/ \E err \in Thrown : BalanceRejects(err)
  \/ \E i \in Flights, present \in BOOLEAN : TokenInfoResolves(i, present, FALSE)
  \/ \E i \in Flights : TokenInfoRejects(i)
  \/ \E i \in Flights, present \in BOOLEAN : PriceResolves(i, present)
  \/ \E i \in Flights : PriceRejects(i)
  \/ \E i \in Flights, ok \in BOOLEAN : UpdateReturns(i, ok)
  \/ \E k \in 1..MaxRefreshes, ok \in BOOLEAN : RefreshTokensAnswered(k, ok)
  \/ \E k \in 1..MaxRefreshes, thrown \in BOOLEAN :
        RefreshProfilesAnswered(k, thrown)
  \/ OnClose
  \/ TimerFires

SpecTrade == Init /\ [][NextTrade]_vars

\* The two components at large: every token, mode and account, with and
\* without onTradeComplete, and every outcome of every call awaited.
NextComponents ==
  \/ \E p \in Panels, tk \in TradeTokens, cb \in BOOLEAN, m \in {"buy", "sell"} :
        Mount(p, tk, cb, m)
  \/ \E a \in {"null", "0xUser"} : AccountsChanged(a)
  \/ \E b \in Balances : FetchBalanceResolves(b)
  \/ FetchBalanceRejects
  \/ \E m \in {"buy", "sell"} : SetMode(m)
  \/ \E v \in {Typed(5, 0), Typed(0, 0)} : HandleAmountChange(v)
  \/ HandleTrade
  \/ \E i \in Flights : SubmitResolves(i)
  \/ \E i \in Flights, err \in Thrown : SubmitRejects(i, err)
  \/ \E b \in Balances : BalanceResolves(b)
  \/ \E err \in Thrown : BalanceRejects(err)
  \/ \E i \in Flights, present, completed \in BOOLEAN :
        TokenInfoResolves(i, present, completed)
  \/ \E i \in Flights : TokenInfoRejects(i)
  \/ \E i \in Flights, present \in BOOLEAN : PriceResolves(i, present)
  \/ \E i \in Flights : PriceRejects(i)
  \/ \E i \in Flights, ok \in BOOLEAN : UpdateReturns(i, ok)
  \/ \E k \in 1..MaxRefreshes, ok \in BOOLEAN : RefreshTokensAnswered(k, ok)
  \/ \E k \in 1..MaxRefreshes, thrown \in BOOLEAN :
        RefreshProfilesAnswered(k, thrown)
  \/ OnClose
  \/ TimerFires

SpecComponents == Init /\ [][NextComponents]_vars

\* The row kept in step with the ledger: a holder trades in TradePanel, again
\* and again, while others trade the same token, and the recalculation script
\* is run at some moments.
NextSync ==
  \/ Mount("TradePanel", TradedToken, TRUE, "buy")
  \/ \E tk \in {TradedToken, RaisedToken} : TokenChanges(tk)
  \/ AccountsChanged("0xUser")
  \/ \E b \in Balances : FetchBalanceResolves(b)
  \/ HandleAmountChange(Typed(5, 0))
  \/ HandleTrade
  \/ SubmitResolves(0)
  \/ \E b \in Balances : BalanceResolves(b)
  \/ TokenInfoResolves(0, TRUE, FALSE)
  \/ PriceResolves(0, TRUE)
  \/ \E ok \in BOOLEAN : UpdateReturns(0, ok)
  \/ \E k \in 1..MaxRefreshes, ok \in BOOLEAN : RefreshTokensAnswered(k, ok)
  \/ \E k \in 1..MaxRefreshes, thrown \in BOOLEAN :
        RefreshProfilesAnswered(k, thrown)
  \/ \E s \in {0, 100000000} : LedgerTrade(s)
  \/ MigrationStatement1
  \/ MigrationStatement2

SpecSync == Init /\ [][NextSync]_vars

\* A token of the list that has no contract address
UnlistedToken ==
  [currentPrice |-> Fin(FromDecimal[1533, 7]), currentSupply |-> Fin(FromInt[0]),
   isCompleted |-> FALSE, contractAddress |-> ""]

\* A launch that completes: the holder trades in TradePanel, the chain read
\* after a trade may report the launch as completed, and the view refreshes
\* the token after the update, also when the parent has handed it a token
\* of another contract address since.
NextLaunch ==
  \/ Mount("TradePanel", TradedToken, TRUE, "buy")
  \/ \E tk \in {TradedToken, RaisedToken, UnlistedToken} : TokenChanges(tk)
  \/ AccountsChanged("0xUser")
  \/ \E b \in Balances : FetchBalanceResolves(b)
  \/ HandleAmountChange(Typed(5, 0))
  \/ HandleTrade
  \/ SubmitResolves(0)
  \/ \E b \in Balances : BalanceResolves(b)
  \/ \E completed \in BOOLEAN : TokenInfoResolves(0, TRUE, completed)
  \/ PriceResolves(0, TRUE)
  \/ \E ok \in BOOLEAN : UpdateReturns(0, ok)
  \/ \E k \in 1..MaxRefreshes, ok \in BOOLEAN : RefreshTokensAnswered(k, ok)
  \/ \E k \in 1..MaxRefreshes, thrown \in BOOLEAN :
        RefreshProfilesAnswered(k, thrown)
  \/ \E s \in {0, 100000000} : LedgerTrade(s)

SpecLaunch == Init /\ [][NextLaunch]_vars

\* updateTokenInDatabase under any caller: every choice of the optional fields
UpdatesGiven ==
  {[currentPrice |-> p, currentSupply |-> s, marketCap |-> m, holders |-> h,
    isCompleted |-> "undefined"] :
     p \in {Undefined, Fin(FromDecimal[3066, 7])},
     s \in {Undefined, Fin(FromInt[100000000])},
     m \in {Undefined, Fin(FromInt[1])},
     h \in {Undefined, Fin(FromInt[1])}}

\* the updates of a second caller, made while the first one's are pending
OverlappingUpdates ==
  {[NoUpdates EXCEPT !.currentSupply = Fin(FromDecimal[5, 1])]}

\* The table under its callers: one makes every update, another one's calls
\* overlap with them, and the table is emptied and the token created again.
NextDb ==
  \/ \E u \in UpdatesGiven : UpdateTokenInDatabase("caller A", "0xToken", u)
  \/ \E a \in {"0xToken", "0xOther"}, u \in OverlappingUpdates :
        UpdateTokenInDatabase("caller B", a, u)
  \/ DeleteAllTokens("caller B")
  \/ CreateTokenInDatabase("caller B")
  \/ \E c \in OtherCallers, ok \in BOOLEAN : DatabaseAnswers(c, ok)

SpecDb == Init /\ [][NextDb]_vars

---------------------------------------------------------------------------
(* trackTokenHolder, called after a trade with the token and the holder.   *)

\* the updates trackTokenHolder passes; balanceNum > 0 holds where it is built
HolderUpdates == [NoUpdates EXCEPT !.holders = Fin(FromInt[1])]

\* the call up to its await of getUserTokenBalance
TrackTokenHolder ==
  /\ tracking.pc \in {"idle", "done"}
  /\ tracking' = [NoTracking EXCEPT !.pc = "getUserTokenBalance"]
  /\ UNCHANGED <<engineVars, tradeVars, walletVars, wallet, persist>>

\* getUserTokenBalance resolves: with a balance above 0 updateTokenInDatabase
\* is called and runs to its await, with any other the function ends
HolderBalanceResolves(balance) ==
  /\ tracking.pc = "getUserTokenBalance"
  /\ tracking' = [pc |-> IF JsGtZero(ParseFloat(balance)) THEN "updateTokenInDatabase"
                         ELSE "done",
                  balance |-> balance, before |-> row.holders, wrote |-> FALSE]
  /\ requests' =
       IF JsGtZero(ParseFloat(balance))
         THEN [requests EXCEPT !["trackTokenHolder"] =
                 [name |-> "updateTokenInDatabase", contractAddress |-> "0xToken",
                  updates |-> HolderUpdates]]
         ELSE requests
  /\ UNCHANGED <<propVars, address, fieldVars, isLoading, error, balanceVars,
                 flightVars, typed, chainSupply, row, inTable, script, dbCall,
                 engineVars, walletVars, wallet, persist>>

\* getUserTokenBalance rejects: the catch logs the error
HolderBalanceRejects ==
  /\ tracking.pc = "getUserTokenBalance"
  /\ tracking' = [tracking EXCEPT !.pc = "done", !.before = row.holders]
  /\ UNCHANGED <<engineVars, tradeVars, walletVars, wallet, persist>>

\* updateTokenInDatabase(tokenAddress, {holders: 1}) returns
HolderUpdateReturns(ok) ==
  /\ tracking.pc = "updateTokenInDatabase"
  /\ Answered("trackTokenHolder", ok)
  /\ tracking' = [tracking EXCEPT !.pc = "done", !.before = row.holders, !.wrote = ok]
  /\ UNCHANGED <<propVars, address, fieldVars, isLoading, error, balanceVars,
                 flightVars, typed, chainSupply, script, engineVars,
                 walletVars, wallet, persist>>

\* balances the ledger reports for a holder
HolderBalances == {Typed(0, 0), Typed(5, 0), Typed(1, 3)}

\* trackTokenHolder after trades, whose own updates of the row come between
\* its calls
NextHolders ==
  \/ TrackTokenHolder
  \/ \E b \in HolderBalances : HolderBalanceResolves(b)
  \/ HolderBalanceRejects
  \/ \E ok \in BOOLEAN : HolderUpdateReturns(ok)
  \/ \E s \in ChainSupplies :
        UpdateTokenInDatabase("caller A", "0xToken",
          [NoUpdates EXCEPT !.currentPrice = ParseFloat(LedgerPriceText(s)),
                            !.currentSupply = ParseFloat(LedgerSupplyText(s))])
  \/ \E ok \in BOOLEAN : DatabaseAnswers("caller A", ok)

SpecHolders == Init /\ [][NextHolders]_vars

---------------------------------------------------------------------------
(* Wallet connection: connectWallet of web3-provider and connect of        *)
(* useWallet.  JavaScript runs a function up to its next await in one      *)
(* piece, so the guard and the assignment after it are one step.           *)

AlreadyInProgress ==
  "Connection already in progress. Please wait for the wallet popup to complete."

\* what the wallet's requests may be rejected with
WalletErrors == {"User rejected the request.", ""}

\* the calls with one of them moved on: call leaves the bag, and next, when
\* it is a call, enters it
Moved(call, next) == (calls (-) SetToBag({call})) (+) SetToBag(next)

\* the values of isConnecting that a connect function of hook c may read: a
\* function reads the state of the render that created it, so the first
\* render's function, kept by a handler, reads false, and the latest reads
\* the present state unless no render has come since it changed
Rendered(c) == {FALSE, connects[c].isConnecting}

\* connectWallet with its guard inside the try block: finally runs after the
\* guard has thrown
Connect_GuardInsideTry(c, seen) ==
  /\ ~seen
  /\ BagCardinality(calls) < MaxCalls
  /\ connects' = [connects EXCEPT ![c] = [isConnecting |-> TRUE, error |-> "null"]]
  /\ IF isConnecting
       THEN /\ calls' = calls (+) SetToBag({[hook |-> c, pc |-> "refused",
                                             error |-> AlreadyInProgress]})
            /\ isConnecting' = FALSE
       ELSE /\ calls' = calls (+) SetToBag({[hook |-> c, pc |-> "switchNetwork",
                                             error |-> "null"]})
            /\ isConnecting' = TRUE
  /\ UNCHANGED <<engineVars, tradeVars, serviceVars>>

\* a call of connect of the hook of component c, by a function that reads
\* seen as isConnecting, up to the first await of connectWallet: the hook's
\* guard, setIsConnecting(true), setError(null), then connectWallet's guard,
\* which throws before the try block, or isConnecting = true
Connect(c, seen) ==
  /\ ~seen
  /\ BagCardinality(calls) < MaxCalls
  /\ connects' = [connects EXCEPT ![c] = [isConnecting |-> TRUE, error |-> "null"]]
  /\ IF isConnecting
       THEN /\ calls' = calls (+) SetToBag({[hook |-> c, pc |-> "refused",
                                             error |-> AlreadyInProgress]})
            /\ UNCHANGED isConnecting
       ELSE /\ calls' = calls (+) SetToBag({[hook |-> c, pc |-> "switchNetwork",
                                             error |-> "null"]})
            /\ isConnecting' = TRUE
  /\ UNCHANGED <<engineVars, tradeVars, serviceVars>>

\* an await of connectWallet resolves: switchNetwork, getProvider, and
\* eth_requestAccounts, after which the function returns through finally and
\* the hook sets the address and awaits getBalance
AwaitResolves(call) ==
  /\ BagIn(call, calls)
  /\ call.pc \in {"switchNetwork", "getProvider", "eth_requestAccounts"}
  /\ calls' = Moved(call, {[call EXCEPT !.pc =
                 CASE call.pc = "switchNetwork" -> "getProvider"
                   [] call.pc = "getProvider" -> "eth_requestAccounts"
                   [] OTHER -> "getBalance"]})
  /\ isConnecting' = IF call.pc = "eth_requestAccounts" THEN FALSE
                     ELSE isConnecting
  /\ UNCHANGED <<connects, engineVars, tradeVars, serviceVars>>

\* an await of connectWallet rejects: catch rethrows, finally clears the flag
AwaitRejects(call, err) ==
  /\ BagIn(call, calls)
  /\ call.pc \in {"switchNetwork", "getProvider", "eth_requestAccounts"}
  /\ calls' = Moved(call, {[call EXCEPT !.pc = "rejected", !.error = err]})
  /\ isConnecting' = FALSE
  /\ UNCHANGED <<connects, engineVars, tradeVars, serviceVars>>

\* what getBalance of the hook may be rejected with
BalanceErrors == {"could not detect network", ""}

\* getBalance of a call of connect resolves: setBalance, and finally
\* setIsConnecting(false); the error stays as it is
GetBalanceResolves(call) ==
  /\ BagIn(call, calls)
  /\ call.pc = "getBalance"
  /\ calls' = Moved(call, {})
  /\ connects' = [connects EXCEPT ![call.hook].isConnecting = FALSE]
  /\ UNCHANGED <<isConnecting, engineVars, tradeVars, serviceVars>>

\* getBalance of a call of connect rejects, inside the try block of connect:
\* the catch sets err.message || "Failed to connect wallet"
GetBalanceRejects(call, err) ==
  /\ BagIn(call, calls)
  /\ call.pc = "getBalance"
  /\ calls' = Moved(call, {})
  /\ connects' = [connects EXCEPT ![call.hook] =
                    [isConnecting |-> FALSE,
                     error |-> IF err = "" THEN "Failed to connect wallet" ELSE err]]
  /\ UNCHANGED <<isConnecting, engineVars, tradeVars, serviceVars>>

\* connectWallet has thrown, at its guard or after an await: the catch of
\* connect sets the error message, finally setIsConnecting(false)
Settle(call) ==
  /\ BagIn(call, calls)
  /\ call.pc \in {"rejected", "refused"}
  /\ calls' = Moved(call, {})
  /\ connects' = [connects EXCEPT ![call.hook] =
                    [isConnecting |-> FALSE,
                     error |-> IF call.error = "" THEN "Failed to connect wallet"
                               ELSE call.error]]
  /\ UNCHANGED <<isConnecting, engineVars, tradeVars, serviceVars>>

NextWallet ==
  \/ \E c \in Connects : \E seen \in Rendered(c) : Connect(c, seen)
  \/ \E call \in BagToSet(calls) : AwaitResolves(call)
  \/ \E call \in BagToSet(calls), err \in WalletErrors : AwaitRejects(call, err)
  \/ \E call \in BagToSet(calls) : GetBalanceResolves(call)
  \/ \E call \in BagToSet(calls), err \in BalanceErrors : GetBalanceRejects(call, err)
  \/ \E call \in BagToSet(calls) : Settle(call)

SpecWallet == Init /\ [][NextWallet]_vars

---------------------------------------------------------------------------
(* useWallet: the state of one hook under checkConnection, the             *)
(* accountsChanged listener, connect and disconnect.                       *)

\* the accounts of the wallet, and what getBalance may resolve with
\* (formatEther of the balance)
Accounts == {"0xA", "0xB"}
EtherBalances == {"0.0", "1.5"}

\* getConnectedAddress returns an address, or null (also when it fails):
\* with an address setAddress, then the await of getBalance
GetConnectedAddressReturns(addr) ==
  /\ wallet.checkConnection = "getConnectedAddress"
  /\ wallet' = IF addr # "null"
                 THEN [wallet EXCEPT !.address = addr, !.checkConnection = "getBalance"]
                 ELSE [wallet EXCEPT !.checkConnection = "done"]
  /\ UNCHANGED <<engineVars, tradeVars, walletVars, tracking, persist>>

\* getBalance of checkConnection resolves: setBalance
CheckBalanceResolves(bal) ==
  /\ wallet.checkConnection = "getBalance"
  /\ wallet' = [wallet EXCEPT !.balance = bal, !.checkConnection = "done"]
  /\ UNCHANGED <<engineVars, tradeVars, walletVars, tracking, persist>>

\* getBalance of checkConnection rejects: the catch logs
CheckBalanceRejects ==
  /\ wallet.checkConnection = "getBalance"
  /\ wallet' = [wallet EXCEPT !.checkConnection = "done"]
  /\ UNCHANGED <<engineVars, tradeVars, walletVars, tracking, persist>>

\* the accountsChanged listener: the first account, or null
OnAccountsChanged(accounts) ==
  /\ wallet' = [wallet EXCEPT !.address = IF Len(accounts) > 0 THEN accounts[1]
                                          ELSE "null"]
  /\ UNCHANGED <<engineVars, tradeVars, walletVars, tracking, persist>>

\* a call of connect by a function that reads seen as isConnecting, up to
\* its await of connectWallet: it returns at once when it reads true, and
\* connectWallet throws at its guard while an earlier call of this hook is
\* inside it
connect(seen) ==
  /\ ~seen
  /\ BagCardinality(wallet.connect) < MaxCalls
  /\ wallet' = [wallet EXCEPT !.isConnecting = TRUE, !.error = "null",
                              !.connect = @ (+) SetToBag({
                                 IF BagIn("connectWallet", wallet.connect)
                                   THEN "refused" ELSE "connectWallet"})]
  /\ UNCHANGED <<engineVars, tradeVars, walletVars, tracking, persist>>

\* connectWallet resolves: setAddress, then the await of getBalance
ConnectWalletResolves(addr) ==
  /\ BagIn("connectWallet", wallet.connect)
  /\ wallet' = [wallet EXCEPT !.address = addr,
                              !.connect = (@ (-) SetToBag({"connectWallet"}))
                                             (+) SetToBag({"getBalance"})]
  /\ UNCHANGED <<engineVars, tradeVars, walletVars, tracking, persist>>

\* getBalance of connect resolves: setBalance, and finally
\* setIsConnecting(false)
ConnectBalanceResolves(bal) ==
  /\ BagIn("getBalance", wallet.connect)
  /\ wallet' = [wallet EXCEPT !.balance = bal, !.isConnecting = FALSE,
                              !.connect = @ (-) SetToBag({"getBalance"})]
  /\ UNCHANGED <<engineVars, tradeVars, walletVars, tracking, persist>>

\* connectWallet or getBalance of the call at await at rejects, or
\* connectWallet has thrown at its guard: setError(err.message || "Failed to
\* connect wallet"), and finally setIsConnecting(false)
ConnectRejects(at, err) ==
  /\ BagIn(at, wallet.connect)
  /\ at = "refused" => err = AlreadyInProgress
  /\ at = "getBalance" => err # AlreadyInProgress
  /\ wallet' = [wallet EXCEPT !.error = IF err = "" THEN "Failed to connect wallet"
                                        ELSE err,
                              !.isConnecting = FALSE,
                              !.connect = @ (-) SetToBag({at})]
  /\ UNCHANGED <<engineVars, tradeVars, walletVars, tracking, persist>>

\* disconnect: setAddress(null), setBalance("0")
disconnect ==
  /\ wallet' = [wallet EXCEPT !.address = "null", !.balance = "0"]
  /\ UNCHANGED <<engineVars, tradeVars, walletVars, tracking, persist>>

NextHook ==
  \/ \E addr \in Accounts \cup {"null"} : GetConnectedAddressReturns(addr)
  \/ \E bal \in EtherBalances : CheckBalanceResolves(bal)
  \/ CheckBalanceRejects
  \/ \E accounts \in {<<>>} \cup {<<a>> : a \in Accounts} : OnAccountsChanged(accounts)
  \/ \E seen \in {FALSE, wallet.isConnecting} : connect(seen)
  \/ \E addr \in Accounts : ConnectWalletResolves(addr)
  \/ \E bal \in EtherBalances : ConnectBalanceResolves(bal)
  \/ \E at \in BagToSet(wallet.connect), err \in WalletErrors \cup {AlreadyInProgress} :
        ConnectRejects(at, err)
  \/ disconnect

SpecHook == Init /\ [][NextHook]_vars

---------------------------------------------------------------------------
(* The persistence functions of lib/tokens, each body a try block around   *)
(* createClient and its queries, under a caller that awaits the function   *)
(* inside its own try/catch.                                               *)

PersistenceFunctions ==
  {"fetchAllTokens", "checkLinkExists", "createTokenInDatabase",
   "updateTokenInDatabase", "deleteAllTokens"}

\* A string is the sequence of its characters, which Len, SubSeq, Head, Tail
\* and \o read and build.  The operations on strings are functions, so that
\* an argument is computed once.
CharsOf[s \in STRING] == {SubSeq(s, i, i) : i \in 1..Len(s)}

LowerCase == "abcdefghijklmnopqrstuvwxyz"
UpperCase == "ABCDEFGHIJKLMNOPQRSTUVWXYZ"
Alpha == CharsOf[LowerCase] \cup CharsOf[UpperCase]
Digit == CharsOf["0123456789"]
HexDigit == CharsOf["0123456789abcdefABCDEF"]

\* the characters U+0001 to U+005F, U+0061 to U+007F and U+0080 to U+00FF in
\* the order of their codes; a string of this module cannot hold U+0060, and
\* U+0000 is left out of the text
Ascii01 == "\t\n\f\r !\"#$%&'()*+,-./0123456789:;<=>?@ABCDEFGHIJKLMNOPQRSTUVWXYZ[\\]^_"
Ascii61 == "abcdefghijklmnopqrstuvwxyz{|}~"
Latin1 == " ¡¢£¤¥¦§¨©ª«¬­®¯°±²³´µ¶·¸¹º»¼½¾¿ÀÁÂÃÄÅÆÇÈÉÊËÌÍÎÏÐÑÒÓÔÕÖ×ØÙÚÛÜÝÞßàáâãäåæçèéêëìíîïðñòóôõö÷øùúûüýþÿ"

\* the index of character c in table, 0 when it is not there
Position[table \in STRING, c \in STRING] ==
  IF \E i \in 1..Len(table) : SubSeq(table, i, i) = c
    THEN CHOOSE i \in 1..Len(table) : SubSeq(table, i, i) = c
    ELSE 0

\* the code of a character: of the tables, of the two other white space
\* characters a string here can hold, and 1114112, past the last code, for a
\* character whose code is not known here
CodeAt[c \in STRING, ascii01 \in Nat, ascii61 \in Nat, latin1 \in Nat] ==
  IF ascii01 > 0 THEN ascii01
  ELSE IF ascii61 > 0 THEN ascii61 + 96
  ELSE IF latin1 > 0 THEN latin1 + 127
  ELSE IF c = " " THEN 5760
  ELSE IF c = "﻿" THEN 65279
  ELSE 1114112

Code[c \in STRING] ==
  CodeAt[c, Position[Ascii01, c], Position[Ascii61, c], Position[Latin1, c]]

Codes[s \in STRING] == [i \in 1..Len(s) |-> Code[SubSeq(s, i, i)]]

\* String.prototype.trim removes white space and line terminators: tab, line
\* feed, vertical tab, form feed, carriage return, space, U+00A0, U+1680,
\* U+FEFF, and U+2000 to U+200A, U+2028, U+2029, U+202F, U+205F and U+3000,
\* which a string of this module cannot hold
WhiteSpace == {" ", "\t", "\n", "\r", "\f", "", " ", " ", "﻿"}

\* the C0 controls and space, which the URL parser strips from both ends of
\* its input, and the tab and line breaks it drops everywhere
C0ControlOrSpace == CharsOf[SubSeq(Ascii01, 1, 32)]
TabOrNewline == {"\t", "\n", "\r"}

\* the least index of s, from index from on, that holds a character of set,
\* and Len(s) + 1 when there is none
IndexOf[s \in STRING, from \in Nat, set \in SUBSET STRING] ==
  IF \E i \in from..Len(s) : SubSeq(s, i, i) \in set
    THEN CHOOSE i \in from..Len(s) :
           /\ SubSeq(s, i, i) \in set
           /\ \A j \in from..(i - 1) : SubSeq(s, j, j) \notin set
    ELSE Len(s) + 1

\* the same for a character outside set
IndexOfNot[s \in STRING, from \in Nat, set \in SUBSET STRING] ==
  IF \E i \in from..Len(s) : SubSeq(s, i, i) \notin set
    THEN CHOOSE i \in from..Len(s) :
           /\ SubSeq(s, i, i) \notin set
           /\ \A j \in from..(i - 1) : SubSeq(s, j, j) \in set
    ELSE Len(s) + 1

\* the greatest index of s that holds a character of set, 0 when there is none
LastIndexOf[s \in STRING, set \in SUBSET STRING] ==
  IF \E i \in 1..Len(s) : SubSeq(s, i, i) \in set
    THEN CHOOSE i \in 1..Len(s) :
           /\ SubSeq(s, i, i) \in set
           /\ \A j \in (i + 1)..Len(s) : SubSeq(s, j, j) \notin set
    ELSE 0

\* s without the characters of set at its two ends
Strip[s \in STRING, set \in SUBSET STRING] ==
  IF CharsOf[s] \subseteq set THEN ""
  ELSE SubSeq(s, IndexOfNot[s, 1, set], LastIndexOf[s, CharsOf[s] \ set])

\* String.prototype.trim
Trim[s \in STRING] == Strip[s, WhiteSpace]

\* s without the characters of set
Without[s \in STRING, set \in SUBSET STRING] ==
  IF s = "" THEN ""
  ELSE (IF Head(s) \in set THEN "" ELSE Head(s)) \o Without[Tail(s), set]

ToLowerCase[s \in STRING] ==
  IF s = "" THEN ""
  ELSE (IF Head(s) \in CharsOf[UpperCase]
          THEN SubSeq(LowerCase, IndexOf[UpperCase, 1, {Head(s)}],
                      IndexOf[UpperCase, 1, {Head(s)}])
          ELSE Head(s)) \o ToLowerCase[Tail(s)]

\* the pieces of s between the characters of seps
Split[s \in STRING, seps \in SUBSET STRING] ==
  IF IndexOf[s, 1, seps] > Len(s) THEN <<s>>
  ELSE <<SubSeq(s, 1, IndexOf[s, 1, seps] - 1)>>
         \o Split[SubSeq(s, IndexOf[s, 1, seps] + 1, Len(s)), seps]

\* new URL(input) without a base, as the parser of Node does it, as far as
\* normalizeIntuitionLink looks at it: whether it throws, and the pathname.
\* The parser strips C0 controls and spaces from the two ends and drops tabs
\* and line breaks, reads the scheme up to the first ":", for http, https,
\* ws, wss, ftp and file takes "\" for "/", and any number of slashes before
\* the host, parses host and port, and resolves and percent-encodes the
\* segments of the path.  Three kinds of input are not followed, and neither
\* NewURL nor ValidAuthority has a value for them: an input with a character
\* whose code is not known here; a host of a special scheme with a label
\* that starts with xn-- or with a character outside ASCII, whose answer lies
\* in the tables of Unicode; and a path with "^", or an opaque path with a
\* space before "?" or "#", where the URL standard has changed what the
\* parser writes.
SpecialSchemes == {"http", "https", "ws", "wss", "ftp", "file"}
SchemeChars == Alpha \cup Digit \cup {"+", "-", "."}
ForbiddenHost ==
  {"\t", "\n", "\r", " ", "#", "/", ":", "<", ">", "?", "@", "[", "\\", "]",
   "^", "|"}
\* the forbidden domain code points: the forbidden host code points, to which
\* U+0000 belongs, the C0 controls, "%" and U+007F
ForbiddenDomain ==
  {Code[c] : c \in ForbiddenHost \cup {"%"}} \cup 0..31 \cup {127}
SingleDot == {".", "%2e"}
DoubleDot == {"..", ".%2e", "%2e.", "%2e%2e"}

\* what the path percent-encode set adds to the C0 control percent-encode
\* set, which is the C0 controls and all from U+007F on, but for "^" and
\* U+0060
PathEncodeSet == {" ", "\"", "#", "<", ">", "?", "{", "}"}

\* the separators of the path of a URL of the scheme
Separators[scheme \in STRING] ==
  IF scheme \in SpecialSchemes THEN {"/", "\\"} ELSE {"/"}

\* "%" and the two upper-case hexadecimal digits of a byte
PercentByte[n \in Nat] ==
  "%" \o SubSeq("0123456789ABCDEF", (n \div 16) + 1, (n \div 16) + 1)
      \o SubSeq("0123456789ABCDEF", (n % 16) + 1, (n % 16) + 1)

\* the percent escapes of the UTF-8 bytes of the character of code n, of
\* which there are up to three below U+10000
Utf8Escaped[n \in Nat] ==
  (IF n < 128 THEN ""
   ELSE IF n < 2048 THEN PercentByte[192 + (n \div 64)]
   ELSE PercentByte[224 + (n \div 4096)] \o PercentByte[128 + ((n \div 64) % 64)])
    \o PercentByte[IF n < 128 THEN n ELSE 128 + (n % 64)]

\* character c of code n, percent-encoded when it is a C0 control, at U+007F
\* or beyond, or in set
EncodeChar[c \in STRING, n \in Nat, set \in SUBSET STRING] ==
  IF n < 32 \/ n > 126 \/ c \in set THEN Utf8Escaped[n] ELSE c

PercentEncode[s \in STRING, set \in SUBSET STRING] ==
  IF s = "" THEN ""
  ELSE EncodeChar[Head(s), Code[Head(s)], set] \o PercentEncode[Tail(s), set]

\* the value of a hexadecimal digit given by its code, 16 for another code
HexValue[n \in Nat] ==
  IF n \in 48..57 THEN n - 48
  ELSE IF n \in 65..70 THEN n - 55
  ELSE IF n \in 97..102 THEN n - 87
  ELSE 16

\* percent-decoding of the codes d: "%" and two hexadecimal digits give a byte
PercentDecode[d \in Seq(Nat)] ==
  IF d = <<>> THEN <<>>
  ELSE IF Len(d) >= 3 /\ d[1] = Code["%"] /\ HexValue[d[2]] < 16 /\ HexValue[d[3]] < 16
    THEN <<16 * HexValue[d[2]] + HexValue[d[3]]>> \o PercentDecode[SubSeq(d, 4, Len(d))]
  ELSE <<d[1]>> \o PercentDecode[Tail(d)]

\* the codes with those of the capitals replaced by those of the small letters
LowerCodes[d \in Seq(Nat)] ==
  [i \in 1..Len(d) |-> IF d[i] \in 65..90 THEN d[i] + 32 ELSE d[i]]

\* the pieces of d between the codes sep
SplitCodes[d \in Seq(Nat), sep \in Nat] ==
  IF \A i \in 1..Len(d) : d[i] # sep THEN <<d>>
  ELSE LET i == CHOOSE i \in 1..Len(d) : d[i] = sep /\ \A j \in 1..(i - 1) : d[j] # sep
       IN  <<SubSeq(d, 1, i - 1)>> \o SplitCodes[SubSeq(d, i + 1, Len(d)), sep]

\* a number below 2^32 as its halves of 16 bits, hi * 65536 + lo, with hi
\* 65536 for every number from 2^32 on
Wide == [hi : Nat, lo : Nat]

\* what the IPv4 number parser returns for a part
ParsedNumber == [failure : BOOLEAN, value : Wide]

\* what the parser has made of the input so far
ParsedUrl == [status : STRING, pathname : STRING]

\* the value of the digits in the radix, as hi * 65536 + lo, with hi kept at
\* 65536 once the value has reached 2^32
NextDigit[n \in Wide, radix \in Nat, digit \in Nat] ==
  [hi |-> IF n.hi * radix + ((n.lo * radix + digit) \div 65536) > 65536 THEN 65536
          ELSE n.hi * radix + ((n.lo * radix + digit) \div 65536),
   lo |-> (n.lo * radix + digit) % 65536]

Number[digits \in Seq(Nat), radix \in Nat] ==
  IF digits = <<>> THEN [hi |-> 0, lo |-> 0]
  ELSE NextDigit[Number[SubSeq(digits, 1, Len(digits) - 1), radix], radix,
                 digits[Len(digits)]]

\* the value n is less than 256^k, k from 1 to 4
Below[n \in Wide, k \in Nat] ==
  CASE k = 1 -> n.hi = 0 /\ n.lo < 256
    [] k = 2 -> n.hi = 0
    [] k = 3 -> n.hi < 256
    [] k = 4 -> n.hi < 65536

\* a port is a numeral up to 65535, or empty
ValidPort[port \in STRING] ==
  /\ CharsOf[port] \subseteq Digit
  /\ Number[[i \in 1..Len(port) |-> HexValue[Code[SubSeq(port, i, i)]]], 10].hi = 0

\* the IPv4 number parser on a part of a host, given by its codes: whether it
\* fails, and the value; 0x and 0X start a hexadecimal numeral, 0 an octal one
IPv4Number[part \in Seq(Nat)] ==
  LET hex == Len(part) >= 2 /\ part[1] = 48 /\ part[2] \in {88, 120}
      octal == ~hex /\ Len(part) >= 2 /\ part[1] = 48
      radix == IF hex THEN 16 ELSE IF octal THEN 8 ELSE 10
      rest == IF hex THEN SubSeq(part, 3, Len(part))
              ELSE IF octal THEN Tail(part) ELSE part
      digits == [i \in 1..Len(rest) |-> HexValue[rest[i]]]
  IN  IF part = <<>> \/ \E i \in 1..Len(rest) : digits[i] >= radix
        THEN [failure |-> TRUE, value |-> [hi |-> 0, lo |-> 0]]
        ELSE [failure |-> FALSE, value |-> Number[digits, radix]]

\* the host of these parts ends in a number: its last part is made of
\* digits, or the IPv4 number parser takes it
EndsInNumber[last \in Seq(Nat), number \in ParsedNumber] ==
  \/ last # <<>> /\ \A i \in 1..Len(last) : last[i] \in 48..57
  \/ ~number.failure

\* the IPv4 parser accepts the numbers of the parts of a host: up to four,
\* each below 256 but the last, which is below 256 to the power of the places
\* left
IPv4[numbers \in Seq(ParsedNumber)] ==
  /\ Len(numbers) <= 4
  /\ \A i \in 1..Len(numbers) : ~numbers[i].failure
  /\ \A i \in 1..(Len(numbers) - 1) : Below[numbers[i].value, 1]
  /\ Below[numbers[Len(numbers)].value, 5 - Len(numbers)]

\* a host of these parts that ends in a number is an IPv4 address, or the
\* host parser fails
NumberHost[parts \in Seq(Seq(Nat)), numbers \in Seq(ParsedNumber)] ==
  IF EndsInNumber[parts[Len(parts)], numbers[Len(parts)]] /\ ~IPv4[numbers]
    THEN "failure" ELSE "host"

PartsHost[parts \in Seq(Seq(Nat))] ==
  NumberHost[parts, [i \in 1..Len(parts) |-> IPv4Number[parts[i]]]]

\* the IPv4 address at the end of an IPv6 address: four numerals up to 255
\* between dots, none with a leading zero
IPv4InIPv6[s \in STRING] ==
  /\ Len(Split[s, {"."}]) = 4
  /\ \A i \in 1..4 :
       LET part == Split[s, {"."}][i]
       IN  /\ part # ""
           /\ CharsOf[part] \subseteq Digit
           /\ Len(part) = 1 \/ Head(part) # "0"
           /\ Below[Number[[j \in 1..Len(part) |-> HexValue[Code[SubSeq(part, j, j)]]], 10], 1]

\* the IPv6 parser from index i of s on, with pieceIndex pieces read and
\* compress telling whether "::" was met: whether it accepts
IPv6Pieces[s \in STRING, i \in Nat, pieceIndex \in Nat, compress \in BOOLEAN] ==
  IF i > Len(s) THEN compress \/ pieceIndex = 8
  ELSE IF pieceIndex = 8 THEN FALSE
  ELSE IF SubSeq(s, i, i) = ":"
    THEN ~compress /\ IPv6Pieces[s, i + 1, pieceIndex + 1, TRUE]
  ELSE LET digits == IndexOfNot[s, i, HexDigit] - i
           j == i + (IF digits > 4 THEN 4 ELSE digits)
       IN  IF j > Len(s) THEN IPv6Pieces[s, j, pieceIndex + 1, compress]
           ELSE IF SubSeq(s, j, j) = "."
             THEN /\ j > i
                  /\ pieceIndex <= 6
                  /\ IPv4InIPv6[SubSeq(s, i, Len(s))]
                  /\ compress \/ pieceIndex = 6
           ELSE IF SubSeq(s, j, j) = ":"
             THEN j < Len(s) /\ IPv6Pieces[s, j + 1, pieceIndex + 1, compress]
           ELSE FALSE

IPv6[s \in STRING] ==
  IF s # "" /\ Head(s) = ":"
    THEN Len(s) >= 2 /\ SubSeq(s, 2, 2) = ":" /\ IPv6Pieces[s, 3, 1, TRUE]
    ELSE IPv6Pieces[s, 1, 0, FALSE]

\* the domain of a special scheme, percent-decoded and in small letters, and
\* its labels, which stand between the dots (code 46): "failure" for a
\* forbidden code point, "unfollowed" for a code beyond ASCII or a label that
\* starts with xn-- (codes 120, 110, 45, 45); otherwise the parts are the
\* labels without an empty last one when there is another
Labelled[d \in Seq(Nat), labels \in Seq(Seq(Nat))] ==
  IF \E i \in 1..Len(d) : d[i] \in ForbiddenDomain THEN "failure"
  ELSE IF \/ \E i \in 1..Len(d) : d[i] > 127
          \/ \E k \in 1..Len(labels) :
                Len(labels[k]) >= 4 /\ SubSeq(labels[k], 1, 4) = <<120, 110, 45, 45>>
    THEN "unfollowed"
  ELSE PartsHost[IF labels[Len(labels)] = <<>> /\ Len(labels) > 1
                   THEN SubSeq(labels, 1, Len(labels) - 1) ELSE labels]

Domain[d \in Seq(Nat)] == Labelled[d, SplitCodes[d, 46]]

\* the host parser on a host that is not empty: an IPv6 address in brackets,
\* an opaque host for a scheme that is not special, or a domain
ParseHost[scheme \in STRING, host \in STRING] ==
  IF Head(host) = "["
    THEN (IF SubSeq(host, Len(host), Len(host)) = "]"
               /\ IPv6[SubSeq(host, 2, Len(host) - 1)]
            THEN "host" ELSE "failure")
  ELSE IF scheme \notin SpecialSchemes
    THEN (IF CharsOf[host] \cap ForbiddenHost = {} THEN "host" ELSE "failure")
  ELSE Domain[LowerCodes[PercentDecode[Codes[host]]]]

\* the index of the first ":" of s outside brackets from index i on, and
\* Len(s) + 1 when there is none
PortColon[s \in STRING, i \in Nat, inside \in BOOLEAN] ==
  IF i > Len(s) THEN i
  ELSE IF SubSeq(s, i, i) = ":" /\ ~inside THEN i
  ELSE PortColon[s, i + 1,
                 IF SubSeq(s, i, i) = "[" THEN TRUE
                 ELSE IF SubSeq(s, i, i) = "]" THEN FALSE ELSE inside]

\* a Windows drive letter: a letter and ":" or "|"
DriveLetter[s \in STRING] ==
  Len(s) = 2 /\ SubSeq(s, 1, 1) \in Alpha /\ SubSeq(s, 2, 2) \in {":", "|"}

\* the host state and the port state have both to succeed
WithPort[host \in STRING, port \in BOOLEAN] ==
  IF host = "failure" \/ ~port THEN "failure" ELSE host

\* host and port of the authority, credentials telling whether "@" came
\* before them: "host" when they are accepted
ParseHostPort[scheme \in STRING, hostport \in STRING, credentials \in BOOLEAN] ==
  LET colon == PortColon[hostport, 1, FALSE]
      host == SubSeq(hostport, 1, colon - 1)
      port == SubSeq(hostport, colon + 1, Len(hostport))
  IN  IF host = ""
        THEN (IF credentials \/ colon <= Len(hostport) \/ scheme \in SpecialSchemes
                THEN "failure" ELSE "host")
      ELSE WithPort[ParseHost[scheme, host], ValidPort[port]]

\* the authority [credentials@]host[:port] of a URL of the scheme: "host"
\* when it is accepted, "failure" when the parser fails, "unfollowed"
\* otherwise.  A file URL has a host only, which may be empty; a drive
\* letter in its place is read as the start of the path.
ParseAuthority[scheme \in STRING, authority \in STRING] ==
  IF scheme = "file"
    THEN (IF authority = "" \/ DriveLetter[authority] THEN "host"
          ELSE ParseHost[scheme, authority])
    ELSE ParseHostPort[scheme,
                       SubSeq(authority, LastIndexOf[authority, {"@"}] + 1, Len(authority)),
                       LastIndexOf[authority, {"@"}] > 0]

\* the authority is accepted for a URL of the scheme
ValidAuthority[scheme \in STRING, authority \in STRING] ==
  CASE ParseAuthority[scheme, authority] = "host" -> TRUE
    [] ParseAuthority[scheme, authority] = "failure" -> FALSE

\* the path without its last segment; a file path keeps a lone drive letter
Shortened[scheme \in STRING, path \in Seq(STRING)] ==
  IF path = <<>> THEN path
  ELSE IF scheme = "file" /\ Len(path) = 1 /\ DriveLetter[path[1]]
            /\ SubSeq(path[1], 2, 2) = ":"
    THEN path
  ELSE SubSeq(path, 1, Len(path) - 1)

\* the path state: the percent-encoded segments segs from index i on, behind
\* the segments of path.  A ".." segment removes the last segment and a "."
\* segment adds none; at the end either leaves an empty segment, ".." only
\* when the scheme is special or a segment was removed.  The first segment
\* of a file path, when a drive letter, gets ":" for "|".
Segments[scheme \in STRING, segs \in Seq(STRING), i \in Nat, path \in Seq(STRING)] ==
  IF i > Len(segs) THEN path
  ELSE IF ToLowerCase[segs[i]] \in DoubleDot
    THEN Segments[scheme, segs, i + 1,
                  Shortened[scheme, path]
                    \o (IF /\ i = Len(segs)
                           /\ (Shortened[scheme, path] # path \/ scheme \in SpecialSchemes)
                          THEN <<"">> ELSE <<>>)]
  ELSE IF ToLowerCase[segs[i]] \in SingleDot
    THEN Segments[scheme, segs, i + 1, path \o (IF i = Len(segs) THEN <<"">> ELSE <<>>)]
  ELSE Segments[scheme, segs, i + 1,
                Append(path, IF scheme = "file" /\ path = <<>> /\ DriveLetter[segs[i]]
                               THEN SubSeq(segs[i], 1, 1) \o ":" ELSE segs[i])]

Serialize[path \in Seq(STRING)] ==
  IF path = <<>> THEN "" ELSE "/" \o path[1] \o Serialize[Tail(path)]

\* the pathname of a URL of the scheme whose path state reads pathText
Pathname[scheme \in STRING, pathText \in STRING] ==
  LET segs == Split[pathText, Separators[scheme]]
  IN  Serialize[Segments[scheme,
                         [k \in 1..Len(segs) |-> PercentEncode[segs[k], PathEncodeSet]],
                         1, <<>>]]

\* what the parser makes of a URL: its pathname, a failure, or not followed
Url(pathname) == [status |-> "url", pathname |-> pathname]
Failure == [status |-> "failure", pathname |-> ""]
Unfollowed == [status |-> "unfollowed", pathname |-> ""]

\* the path state on pathText, which starts behind a separator
PathState[scheme \in STRING, pathText \in STRING] ==
  IF "^" \in CharsOf[pathText] THEN Unfollowed
  ELSE Url(Pathname[scheme, pathText])

\* the URL behind its authority, when the host parser has accepted that
AfterAuthority[authority \in STRING, url \in ParsedUrl] ==
  IF authority = "failure" THEN Failure
  ELSE IF authority = "unfollowed" THEN Unfollowed
  ELSE url

\* a URL whose authority starts at index from of body, which is what stands
\* between the scheme and the query or fragment.  The path start state skips
\* one separator behind the authority; the path of a special URL has one
\* empty segment at least, that of another URL may be empty; the file host
\* state hands a drive letter over to the path state.
WithAuthority[scheme \in STRING, body \in STRING, from \in Nat] ==
  LET end == IndexOf[body, from, Separators[scheme]]
      authority == SubSeq(body, from, end - 1)
  IN  AfterAuthority[
        ParseAuthority[scheme, authority],
        IF end > Len(body) /\ scheme \notin SpecialSchemes THEN Url("")
        ELSE PathState[scheme,
                       IF scheme = "file" /\ DriveLetter[authority]
                         THEN SubSeq(body, from, Len(body))
                         ELSE SubSeq(body, end + 1, Len(body))]]

\* the index of body at which the authority starts, 0 when the URL has none:
\* behind the two slashes of a file URL, behind the slashes of another
\* special URL, however many, and behind "//" otherwise
AuthorityStart[scheme \in STRING, body \in STRING] ==
  IF scheme = "file"
    THEN (IF IndexOfNot[body, 1, Separators[scheme]] > 2 THEN 3 ELSE 0)
  ELSE IF scheme \in SpecialSchemes THEN IndexOfNot[body, 1, Separators[scheme]]
  ELSE IF Len(body) >= 2 /\ SubSeq(body, 1, 2) = "//" THEN 3
  ELSE 0

\* the states after the scheme, on what stands between the ":" and the query
\* or fragment, followed telling whether one of the two follows: a URL with
\* an authority, a file URL without or another URL whose path starts with
\* "/", or a URL with an opaque path
ParseBody[scheme \in STRING, body \in STRING, followed \in BOOLEAN] ==
  IF AuthorityStart[scheme, body] > 0
    THEN WithAuthority[scheme, body, AuthorityStart[scheme, body]]
  ELSE IF scheme = "file" \/ (body # "" /\ Head(body) = "/")
    THEN PathState[scheme, IF body # "" /\ Head(body) \in Separators[scheme]
                             THEN Tail(body) ELSE body]
  ELSE IF followed /\ body # "" /\ SubSeq(body, Len(body), Len(body)) = " "
    THEN Unfollowed
  ELSE Url(PercentEncode[body, {}])

\* the scheme start state and the scheme state
ParseScheme[s \in STRING] ==
  IF \E i \in 1..Len(s) : Code[SubSeq(s, i, i)] = 1114112 THEN Unfollowed
  ELSE IF \/ s = ""
     \/ Head(s) \notin Alpha
     \/ IndexOf[s, 1, {":"}] > Len(s)
     \/ ~(CharsOf[SubSeq(s, 1, IndexOf[s, 1, {":"}] - 1)] \subseteq SchemeChars)
    THEN Failure
    ELSE ParseBody[ToLowerCase[SubSeq(s, 1, IndexOf[s, 1, {":"}] - 1)],
                   SubSeq(s, IndexOf[s, 1, {":"}] + 1,
                          IndexOf[s, IndexOf[s, 1, {":"}] + 1, {"?", "#"}] - 1),
                   IndexOf[s, IndexOf[s, 1, {":"}] + 1, {"?", "#"}] <= Len(s)]

\* new URL returns the URL or throws; it has no value for what is not
\* followed
Constructed[url \in ParsedUrl] ==
  CASE url.status = "url" -> [threw |-> FALSE, pathname |-> url.pathname]
    [] url.status = "failure" -> [threw |-> TRUE, pathname |-> ""]

NewURL[input \in STRING] ==
  Constructed[ParseScheme[Without[Strip[input, C0ControlOrSpace], TabOrNewline]]]

\* pathname.match(/^\/explore\/atom\/(0x[a-fA-F0-9]+)/): null, or the group
PathMatch[pathname \in STRING] ==
  IF /\ Len(pathname) > 16
     /\ SubSeq(pathname, 1, 16) = "/explore/atom/0x"
     /\ IndexOfNot[pathname, 17, HexDigit] > 17
    THEN [matched |-> TRUE,
          group |-> "0x" \o SubSeq(pathname, 17, IndexOfNot[pathname, 17, HexDigit] - 1)]
    ELSE [matched |-> FALSE, group |-> ""]

\* what match returns, what new URL has done and how the try block ended
MatchResult == [matched : BOOLEAN, group : STRING]
NewUrlResult == [threw : BOOLEAN, pathname : STRING]
TryResult == [threw : BOOLEAN, value : STRING]

\* the rest of the try block of normalizeIntuitionLink once new URL has
\* returned and the pattern was tried: the function throws when the path
\* does not match
Matched[threw \in BOOLEAN, pathMatch \in MatchResult] ==
  IF threw \/ ~pathMatch.matched
    THEN [threw |-> TRUE, value |-> ""]
    ELSE [threw |-> FALSE,
          value |-> "https://portal.intuition.systems/explore/atom/" \o pathMatch.group]

Tried[url \in NewUrlResult] ==
  Matched[url.threw, PathMatch[url.pathname]]

\* the try block of normalizeIntuitionLink: it returns the atom link, or
\* new URL throws, or the function itself does
NormalizeTry[link \in STRING] == Tried[NewURL[Trim[link]]]

\* the catch block of normalizeIntuitionLink logs what the try block threw
\* and returns ""
NormalizeCatch[try \in TryResult] ==
  IF try.threw THEN [returned |-> "", logged |-> <<"[v0] Error normalizing link:">>]
  ELSE [returned |-> try.value, logged |-> <<>>]

\* a call of normalizeIntuitionLink, blank telling what its test of the link
\* found: what it returns, "" for no link, and what it writes with
\* console.error
Normalize[link \in STRING, blank \in BOOLEAN] ==
  IF blank THEN [returned |-> "", logged |-> <<>>]
  ELSE NormalizeCatch[NormalizeTry[link]]

normalizeIntuitionLink(link) ==
  Normalize[link, link = "" \/ Trim[link] = ""].returned

\* what normalizeIntuitionLink writes with console.error
NormalizeLogged(link) ==
  Normalize[link, link = "" \/ Trim[link] = ""].logged

\* the links checkLinkExists is given: none and blank ones, atom links as
\* the portal shows them, with white space, a control character, a query, a
\* suffix or capitals around them, on another host, on hosts that are
\* addresses, numbers or escaped, or under another scheme, file paths with
\* drive letters, paths that climb, and strings that are no atom link or no
\* URL
Links ==
  {"", " ", " \t", "", " ", "  ",
   "https://portal.intuition.systems/explore/atom/0xab",
   "  https://portal.intuition.systems/explore/atom/0xab\n",
   "https://portal.intuition.systems/explore/atom/0xab",
   "https://portal.intuition.systems/explore/atom/0xAB12?tab=claims#top",
   "https://portal.intuition.systems/explore/atom/0xab/claims",
   "https://portal.intuition.systems/explore/atom/0xabg",
   "HTTPS:\\\\example.com/x/../explore/./atom/0xab",
   "web+atom:/explore/atom/0x1",
   "https://portal.intuition.systems/explore/atom/0x",
   "https://portal.intuition.systems/explore/Atom/0xab",
   "https://portal.intuition.systems/explore/atom/ab",
   "https://example.com/x",
   "https://portal.intuition.systems",
   "portal.intuition.systems/explore/atom/0xab",
   "/explore/atom/0xab",
   "https:///explore/atom/0xab",
   "https://exa mple.com/explore/atom/0xab",
   "https://example.com:99999/explore/atom/0xab",
   "https://[::1]/explore/atom/0xab",
   "https://[1:2:3:4:5:6:7.8.9.10]:8080/explore/atom/0xab",
   "https://[::1/explore/atom/0xab",
   "x://[::1]/explore/atom/0xab",
   "https://ex%41mple.com/explore/atom/0xab",
   "https://ex%2Fmple.com/explore/atom/0xab",
   "https://0x7f.1/explore/atom/0xab",
   "https://4294967295/explore/atom/0xab",
   "https://4294967296/explore/atom/0xab",
   "https://1.2.3.4.5/explore/atom/0xab",
   "https://256.1.1.1/explore/atom/0xab",
   "https://a.1/explore/atom/0xab",
   "https://08/explore/atom/0xab",
   "file:///explore/atom/0xab",
   "file:///C:/../explore/atom/0xab",
   "file:C|/explore/atom/0xab",
   "file://C:/explore/atom/0xab",
   "x:/..",
   "x://h/..",
   "x:/a/../../explore/atom/0xab",
   "x:/ explore/atom/0xab",
   "mailto:/explore/atom/0xab",
   "not a link"}

\* what checkLinkExists gets from its test of the link (180) and from
\* normalizeIntuitionLink (183), for each of the links
Normalizations ==
  [link \in Links |->
     [blank |-> (link = "" \/ Trim[link] = ""),
      normalized |-> normalizeIntuitionLink(link),
      logged |-> NormalizeLogged(link)]]

\* what checkLinkExists has from its test of the link and from the normalizer
Normalization == [blank : BOOLEAN, normalized : STRING, logged : Seq(STRING)]

\* checkLinkExists up to createClient, on what it gets for its link: it
\* returns false for no link, ahead of its try block, and for one that
\* normalizeIntuitionLink turns into ""; otherwise it goes on with the
\* normalized link
LinkChecked[n \in Normalization] ==
  IF n.blank \/ n.normalized = ""
    THEN [fn |-> "checkLinkExists", pc |-> "returned", failure |-> "none", at |-> "",
          ret |-> "false", caller |-> "try", link |-> "",
          logged |-> IF n.blank THEN <<>> ELSE n.logged]
    ELSE [fn |-> "checkLinkExists", pc |-> "createClient", failure |-> "none",
          at |-> "", ret |-> "pending", caller |-> "try", link |-> n.normalized,
          logged |-> <<>>]

\* what the catch block of each function returns after console.error
Caught_Rethrows(f) == [pc |-> "threw", ret |-> "pending", logged |-> <<>>]

Caught(f) ==
  CASE f = "fetchAllTokens" ->
         [pc |-> "returned", ret |-> "[]", logged |-> <<"[v0] Failed to fetch tokens:">>]
    [] f = "checkLinkExists" ->
         [pc |-> "returned", ret |-> "false", logged |-> <<"[v0] Failed to check link:">>]
    [] f = "createTokenInDatabase" ->
         [pc |-> "returned", ret |-> "null", logged |-> <<"[v0] Failed to create token:">>]
    [] f = "updateTokenInDatabase" ->
         [pc |-> "returned", ret |-> "false", logged |-> <<"[v0] Failed to update token:">>]
    [] f = "deleteAllTokens" ->
         [pc |-> "returned", ret |-> "false", logged |-> <<"[v0] Failed to delete tokens:">>]

\* what each function does with the error its query of meme_tokens reports
ErrorReported(f) ==
  CASE f = "fetchAllTokens" ->
         [pc |-> "returned", ret |-> "[]", logged |-> <<"[v0] Error fetching tokens:">>]
    [] f = "checkLinkExists" ->
         [pc |-> "returned", ret |-> "false", logged |-> <<"[v0] Error checking link:">>]
    [] f = "createTokenInDatabase" ->
         [pc |-> "returned", ret |-> "null", logged |-> <<"[v0] Error creating token:">>]
    [] f = "updateTokenInDatabase" ->
         [pc |-> "returned", ret |-> "false", logged |-> <<"[v0] Error updating token:">>]
    [] f = "deleteAllTokens" ->
         [pc |-> "returned", ret |-> "false", logged |-> <<"[v0] Error deleting tokens:">>]

\* caller c calls f inside its try block, checkLinkExists with a link; f
\* runs to createClient
CallPersistence(c, f, link) ==
  /\ persist[c].caller # "try"
  /\ (f # "checkLinkExists" => link = "")
  /\ persist' = [persist EXCEPT ![c] =
       IF f = "checkLinkExists" THEN LinkChecked[Normalizations[link]]
       ELSE [fn |-> f, pc |-> "createClient", failure |-> "none", at |-> "",
             ret |-> "pending", caller |-> "try", link |-> "", logged |-> <<>>]]
  /\ UNCHANGED <<engineVars, tradeVars, walletVars, tracking, wallet>>

\* createClient returns the client: the function awaits its query
CreateClientReturns(c) ==
  /\ persist[c].pc = "createClient"
  /\ persist' = [persist EXCEPT ![c].pc = "meme_tokens"]
  /\ UNCHANGED <<engineVars, tradeVars, walletVars, tracking, wallet>>

\* createClient throws, or the query rejects: the catch block
ExceptionThrown(c) ==
  /\ persist[c].pc \in {"createClient", "meme_tokens", "user_profiles"}
  /\ persist' = [persist EXCEPT ![c].pc = Caught(persist[c].fn).pc,
                                ![c].ret = Caught(persist[c].fn).ret,
                                ![c].logged = @ \o Caught(persist[c].fn).logged,
                                ![c].failure = "exception",
                                ![c].at = persist[c].pc]
  /\ UNCHANGED <<engineVars, tradeVars, walletVars, tracking, wallet>>

\* what a function returns when its query of meme_tokens resolved without an
\* error, with rows or with none; fetchAllTokens goes on to user_profiles
Answer(f, rows) ==
  CASE f = "fetchAllTokens" -> IF rows THEN "pending" ELSE "[]"
    [] f = "checkLinkExists" -> IF rows THEN "true" ELSE "false"
    [] f = "createTokenInDatabase" -> IF rows THEN "token" ELSE "null"
    [] OTHER -> "true"

\* the query of meme_tokens resolves with {data, error}
QueryResolves(c, rows, failed) ==
  /\ persist[c].pc = "meme_tokens"
  /\ persist' =
       IF failed
         THEN [persist EXCEPT ![c].pc = ErrorReported(persist[c].fn).pc,
                              ![c].ret = ErrorReported(persist[c].fn).ret,
                              ![c].logged = @ \o ErrorReported(persist[c].fn).logged,
                              ![c].failure = "error", ![c].at = "meme_tokens"]
         ELSE IF Answer(persist[c].fn, rows) = "pending"
                THEN [persist EXCEPT ![c].pc = "user_profiles"]
                ELSE [persist EXCEPT ![c].pc = "returned",
                                     ![c].ret = Answer(persist[c].fn, rows)]
  /\ UNCHANGED <<engineVars, tradeVars, walletVars, tracking, wallet>>

\* the query of user_profiles resolves: only data is read, (profiles || [])
ProfilesResolve(c, failed) ==
  /\ persist[c].pc = "user_profiles"
  /\ persist' = [persist EXCEPT ![c].pc = "returned", ![c].ret = "tokens",
                                ![c].failure = IF failed THEN "error" ELSE "none",
                                ![c].at = IF failed THEN "user_profiles" ELSE ""]
  /\ UNCHANGED <<engineVars, tradeVars, walletVars, tracking, wallet>>

\* the await of caller c settles: it goes on after the call, or to its catch
CallerResumes(c) ==
  /\ persist[c].caller = "try"
  /\ persist[c].pc \in {"returned", "threw"}
  /\ persist' = [persist EXCEPT ![c].caller = IF persist[c].pc = "threw" THEN "catch"
                                              ELSE "after"]
  /\ UNCHANGED <<engineVars, tradeVars, walletVars, tracking, wallet>>

NextPersist ==
  \/ \E c \in PersistCallers, f \in PersistenceFunctions, link \in Links :
        CallPersistence(c, f, link)
  \/ \E c \in PersistCallers : CreateClientReturns(c)
  \/ \E c \in PersistCallers : ExceptionThrown(c)
  \/ \E c \in PersistCallers, rows, failed \in BOOLEAN : QueryResolves(c, rows, failed)
  \/ \E c \in PersistCallers, failed \in BOOLEAN : ProfilesResolve(c, failed)
  \/ \E c \in PersistCallers : CallerResumes(c)

SpecPersist == Init /\ [][NextPersist]_vars

---------------------------------------------------------------------------
(* Properties of the engine, each stated on the call a caller observes.    *)

Allocation == FromInt[700000000]
StepSize == FromInt[100000000]
InitialPrice == FromDecimal[1533, 7]

\* the price the formula gives at effective supply eff, computed step by step
QuadraticPrice(eff) ==
  FMul[InitialPrice, FAdd[FromInt[1], FMul[FDiv[eff, StepSize], FDiv[eff, StepSize]]]]

\* C1: calculateBondingCurvePrice(supply) is INITIAL_PRICE when
\* min(supply, allocation) is exactly 0 and INITIAL_PRICE * (1 + (eff / step)^2)
\* otherwise, the allocation MAX_SUPPLY * BONDING_CURVE_PERCENT / 100 being
\* 700,000,000; price(0) = 0.0001533 and price(100,000,000) = 2 * 0.0001533.
C1_PriceFormula ==
  fn = "calculateBondingCurvePrice" =>
    /\ bondingMax = Allocation
    /\ ret = IF FIsZero(MathMin[args[1], Allocation]) THEN InitialPrice
             ELSE QuadraticPrice(MathMin[args[1], Allocation])
    /\ (args[1] = FromInt[0] => ret = FromDecimal[1533, 7])
    /\ (args[1] = FromInt[100000000] => ret = FMul[FromInt[2], FromDecimal[1533, 7]])

C1_Witness ==
  /\ fn = "calculateBondingCurvePrice"
  /\ args = <<FromInt[100000000]>>
  /\ ret = FromDecimal[3066, 7]

\* C2: the price never decreases as the supply grows: for 0 <= s1 < s2, within
\* the allocation and past it, price(s1) <= price(s2).
C2_PriceMonotone ==
  (fn = "calculateBondingCurvePrice" /\ FLe(Zero, args[1])) =>
    \A s2 \in Supplies :
      FLt(args[1], s2) => FLe(ret, calculateBondingCurvePrice(s2))

C2_Witness ==
  /\ fn = "calculateBondingCurvePrice"
  /\ args = <<FromInt[650000000]>>
  /\ FLt(ret, calculateBondingCurvePrice(FromInt[700000000]))
  /\ FromInt[800000000] \in Supplies
  /\ calculateBondingCurvePrice(FromInt[700000000])
       = calculateBondingCurvePrice(FromInt[800000000])

\* C3: above the allocation the price is the price at the allocation, and for
\* no supply >= 0 does the price exceed the price at the allocation.
C3_PriceClamp ==
  fn = "calculateBondingCurvePrice" =>
    /\ (FLt(Allocation, args[1]) => ret = calculateBondingCurvePrice(Allocation))
    /\ (FLe(Zero, args[1]) => FLe(ret, calculateBondingCurvePrice(Allocation)))

C3_Witness ==
  /\ fn = "calculateBondingCurvePrice"
  /\ args = <<FromInt[800000000]>>
  /\ ret = FMul[InitialPrice, FromInt[50]]

\* C4: for every supply >= 0 the price is at least INITIAL_PRICE.
C4_PriceFloor ==
  (fn = "calculateBondingCurvePrice" /\ FLe(Zero, args[1])) => FLe(InitialPrice, ret)

C4_Witness ==
  /\ fn = "calculateBondingCurvePrice"
  /\ args = <<FromInt[50000000]>>
  /\ FLt(InitialPrice, ret)

\* the double next above x > 0
NextUp(x) == FAdd[x, Ulps[x, 1]]

\* C5 as claimed: calculateMarketCap(supply) is price(supply) times the full
\* 700,000,000 allocation, and marketCap(0) is 107,310.
C5_MarketCapExactly107310 ==
  fn = "calculateMarketCap" =>
    /\ ret = FMul[calculateBondingCurvePrice(args[1]), Allocation]
    /\ (args[1] = FromInt[0] => ret = FromInt[107310])

\* C5: calculateMarketCap(supply) is the product, rounded to a double, of
\* price(supply) and the full allocation MAX_SUPPLY * BONDING_CURVE_PERCENT / 100
\* = 700,000,000, whatever the supply; marketCap(0) is the rounded product of
\* 0.0001533 and 700,000,000, the double next above 107,310.
C5_MarketCap ==
  fn = "calculateMarketCap" =>
    /\ ret = FMul[calculateBondingCurvePrice(args[1]),
                  FDiv[FMul[FromInt[1000000000], FromInt[70]], FromInt[100]]]
    /\ ret = FMul[calculateBondingCurvePrice(args[1]), Allocation]
    /\ (args[1] = FromInt[0] =>
          /\ ret = FMul[FromDecimal[1533, 7], FromInt[700000000]]
          /\ ret = NextUp(FromInt[107310]))

C5_Witness ==
  /\ fn = "calculateMarketCap"
  /\ args = <<FromInt[0]>>
  /\ ret # FromInt[107310]
  /\ FSub[ret, FromInt[107310]] = Ulps[FromInt[107310], 1]

\* C6: for every supply >= 0 the progress lies in 0..100; it is 0 at supply 0,
\* supply / 700,000,000 * 100 below the allocation (50 at 350,000,000) and
\* exactly 100 at and above the allocation (at 800,000,000 too).
C6_ProgressBounds ==
  (fn = "calculateBondingCurveProgress" /\ FLe(Zero, args[1])) =>
    /\ FLe(Zero, ret)
    /\ FLe(ret, FromInt[100])
    /\ (args[1] = FromInt[0] => ret = FromInt[0])
    /\ (FLt(args[1], Allocation) =>
          ret = FMul[FDiv[args[1], Allocation], FromInt[100]])
    /\ (FLe(Allocation, args[1]) => ret = FromInt[100])
    /\ (args[1] = FromInt[350000000] => ret = FromInt[50])
    /\ (args[1] = FromInt[800000000] => ret = FromInt[100])

C6_Witness ==
  /\ fn = "calculateBondingCurveProgress"
  /\ args = <<FromInt[800000000]>>
  /\ ret = FromInt[100]
  /\ FLt(FromInt[114], FMul[FDiv[args[1], Allocation], FromInt[100]])

\* gross proceeds, and the net proceeds as the one product t * price * (1 - fee / 100)
GrossOfCall == FMul[args[1], calculateBondingCurvePrice(args[2])]
NetAsProduct == FMul[GrossOfCall, FSub[FromInt[1], FDiv[FEE_PERCENT, FromInt[100]]]]

\* x and y are at most k units in the last place of y apart
WithinUlps(x, y, k) ==
  IF FIsZero(y) THEN FIsZero(x) ELSE FLe(FAbs[FSub[x, y]], Ulps[y, k])

\* C7 as claimed: calculateTrustFromSell(t, s) equals
\* t * price(s) * (1 - FEE_PERCENT / 100) exactly.
C7_SellExactlyProduct ==
  fn = "calculateTrustFromSell" => ret = NetAsProduct

\* C7: calculateTrustFromSell(t, s) is gross - fee with gross = t * price(s) and
\* fee = gross * FEE_PERCENT / 100, each step rounded to a double; it agrees
\* with t * price(s) * (1 - FEE_PERCENT / 100) to within 4 units in the last
\* place, and selling 1000 tokens at supply 100,000,000 yields 0.303534.
C7_SellProceeds ==
  fn = "calculateTrustFromSell" =>
    /\ ret = FSub[GrossOfCall, FDiv[FMul[GrossOfCall, FromInt[1]], FromInt[100]]]
    /\ WithinUlps(ret, NetAsProduct, 4)
    /\ (args = <<FromInt[1000], FromInt[100000000]>> => ret = FromDecimal[303534, 6])

C7_Witness ==
  /\ fn = "calculateTrustFromSell"
  /\ args = <<FromInt[1], FromInt[0]>>
  /\ ret # NetAsProduct
  /\ WithinUlps(ret, NetAsProduct, 1)

\* C8 as claimed: the result of calculateTrustFromSell never exceeds the gross
\* proceeds, for every token amount and supply.
C8_SellAtMostGrossAlways ==
  fn = "calculateTrustFromSell" => FLe(ret, GrossOfCall)

\* C8: for every token amount >= 0 and every supply, the result of
\* calculateTrustFromSell is at most the gross proceeds tokenAmount * price(supply).
C8_SellAtMostGross ==
  (fn = "calculateTrustFromSell" /\ FLe(Zero, args[1])) => FLe(ret, GrossOfCall)

C8_Witness ==
  /\ fn = "calculateTrustFromSell"
  /\ args[1] = FromInt[1000]
  /\ FLt(ret, GrossOfCall)

\* one unit in the last place of x, as an exact value
UlpOf(x) == [sgn |-> 0, man |-> BOne, exp |-> x.exp]

\* q is a double nearest to the real quotient p / d:  2 * |q * d - p| <= ulp(q) * |d|
NearestQuotient(q, p, d) ==
  IF FIsZero(p) THEN FIsZero(q)
  ELSE ExactLe[ExactMul[FromInt[2], ExactAbsDiff[ExactMul[q, d], p]],
               ExactMul[UlpOf(q), FAbs[d]]]

\* C9: calculateTokensFromTrust(payment, supply) is payment / price(supply) at
\* the spot price of the supply passed in: the double nearest to the real
\* quotient; the divisor does not depend on the payment, so twice the payment
\* is quoted twice the tokens.
C9_TokensAtSpotPrice ==
  fn = "calculateTokensFromTrust" =>
    /\ ret = FDiv[args[1], calculateBondingCurvePrice(args[2])]
    /\ NearestQuotient(ret, args[1], calculateBondingCurvePrice(args[2]))
    /\ calculateTokensFromTrust(FAdd[args[1], args[1]], args[2]) = FAdd[ret, ret]

C9_Witness ==
  /\ fn = "calculateTokensFromTrust"
  /\ args = <<FromInt[3], FromInt[100000000]>>
  /\ ret = FDiv[FromInt[3], FromDecimal[3066, 7]]
  /\ FLt(FromInt[9784], ret)
  /\ FLt(ret, FromInt[9785])

\* C10 as claimed: calculateTrustFromTokens(t, s) is t * price(s), and converting
\* the tokens quoted for a payment p back at the same supply returns p.
C10_RoundTripExact ==
  fn = "calculateTrustFromTokens" =>
    /\ ret = FMul[args[1], calculateBondingCurvePrice(args[2])]
    /\ (origin # <<>> => ret = origin[1])

\* C10: calculateTrustFromTokens(t, s) is t * price(s) rounded to a double;
\* converting the tokens quoted for a payment p back at the same supply returns
\* p to within 2 units in the last place of p.
C10_RoundTrip ==
  fn = "calculateTrustFromTokens" =>
    /\ ret = FMul[args[1], calculateBondingCurvePrice(args[2])]
    /\ (origin # <<>> => WithinUlps(ret, origin[1], 2))

C10_Witness ==
  /\ fn = "calculateTrustFromTokens"
  /\ origin = <<FromInt[3]>>
  /\ args[2] = FromInt[0]
  /\ ret # origin[1]
  /\ WithinUlps(ret, origin[1], 1)

\* x is a finite double: zero, or a significand of exactly MantBits bits
IsFiniteDouble(x) ==
  /\ x \in Dyadic
  /\ (x.man = <<>> \/ BBitLen[x.man] = MantBits)

\* C11: no engine call fails: every call of the six functions returns a finite
\* number; calculateBondingCurvePrice(supply) > 0 for every supply, negative
\* ones included, so the divisor of calculateTokensFromTrust is never zero.
C11_NoFailure ==
  /\ (fn # "none" => IsFiniteDouble(ret))
  /\ (fn = "calculateBondingCurvePrice" => FLt(Zero, ret))
  /\ (fn = "calculateTokensFromTrust" =>
        /\ ~FIsZero(calculateBondingCurvePrice(args[2]))
        /\ FLt(Zero, calculateBondingCurvePrice(args[2])))

C11_Witness ==
  /\ fn = "calculateTokensFromTrust"
  /\ args = <<FromInt[3], FromInt[-300000000]>>
  /\ calculateBondingCurvePrice(args[2]) = FMul[InitialPrice, FromInt[10]]
  /\ IsFiniteDouble(ret)
  /\ FLt(Zero, ret)

---------------------------------------------------------------------------
(* Properties of the trade components.                                     *)

\* where entry e stands in the log of the handleTrade invocation
Positions(e) == {i \in 1..Len(log) : log[i] = e}

\* where entry e stands in the log of handleTrade i
FlightPositions(i, e) == {j \in 1..Len(Flight(i).log) : Flight(i).log[j] = e}

\* C13: handleTrade is ordered submit, re-read, write: in every call, of
\* the component on screen or of a modal closed meanwhile,
\* updateTokenInDatabase is called at most once, only after
\* buyTokens/sellTokens resolved and after getTokenInfoWithRetry and then
\* getCurrentPrice each returned a value, both read after the transaction,
\* and with those values; onTradeComplete is called only after the database
\* call has returned, in the step in which it returns.
C13_Ordered ==
  /\ [](\A f \in Flights :
          /\ Cardinality(FlightPositions(f, "updateTokenInDatabase")) <= 1
          /\ \A u \in FlightPositions(f, "updateTokenInDatabase") :
                /\ u = Len(Flight(f).log) => Flight(f).pc = "updateTokenInDatabase"
                /\ \E s, r, i, p \in 1..Len(Flight(f).log) :
                      /\ s < r /\ r < i /\ i < p /\ p < u
                      /\ Flight(f).log[s] \in {"buyTokens", "sellTokens"}
                      /\ Flight(f).log[r] = "resolved"
                      /\ Flight(f).log[i] = "tokenInfo"
                      /\ Flight(f).log[p] = "currentPrice"
          /\ Flight(f).pc = "updateTokenInDatabase" =>
                /\ Flight(f).tokenInfo.present
                /\ TextTruthy(Flight(f).currentPrice)
                /\ Flight(f).request.name = "updateTokenInDatabase"
                /\ Flight(f).request.updates.currentPrice
                      = ParseFloat(Flight(f).currentPrice)
                /\ Flight(f).request.updates.currentSupply
                      = ParseFloat(Flight(f).tokenInfo.currentSupply)
          /\ \A c \in FlightPositions(f, "onTradeComplete") :
                \E u, d \in 1..Len(Flight(f).log) :
                   /\ u < d /\ d < c
                   /\ Flight(f).log[u] = "updateTokenInDatabase"
                   /\ Flight(f).log[d] = "updated")
  /\ [][Len(refreshes') > Len(refreshes) =>
          /\ pc = "updateTokenInDatabase"
          /\ pc' = "idle"
          /\ requests["handleTrade"].name = "updateTokenInDatabase"
          /\ requests'["handleTrade"] = NoRequest
          /\ dbCall'.name = "updateTokenInDatabase"]_vars

\* a trade of the panel has run to its end while the call of a closed modal
\* awaits its own update
C13_Witness ==
  /\ panel = "TradePanel"
  /\ log = <<"buyTokens", "resolved", "balance", "tokenInfo", "currentPrice",
             "updateTokenInDatabase", "updated", "onTradeComplete">>
  /\ dbCall.ok
  /\ row.market_cap = calculateMarketCap(Zero)
  /\ Len(refreshes) = 1
  /\ Len(closed) = 1
  /\ closed[1].pc = "updateTokenInDatabase"


\* the conditions under which handleTrade is to submit
Valid ==
  /\ address # "null"
  /\ ~token.isCompleted
  /\ TextTruthy(amount) /\ JsGtZero(ParseFloat(amount))
  /\ TextTruthy(trustAmount) /\ JsGtZero(ParseFloat(trustAmount))
  /\ (panel = "TradePanel" => token.contractAddress # "")

\* C14: handleTrade submits buyTokens/sellTokens only if an address is
\* connected, the launch is not completed, amount and trustAmount each parse
\* to a value above 0 and, in TradePanel, the contract address is not empty;
\* otherwise it sets an error message, submits nothing, starts no database
\* write and leaves isLoading false.  The conditions are those of the moment
\* handleTrade is invoked: the account may change while the trade is awaited,
\* and the call of a modal closed earlier may write meanwhile.
C14_Validated ==
  /\ [](/\ log = <<"invalid">> =>
              /\ error # ""
              /\ tx = NoCall
              /\ ~isLoading
              /\ pc = "idle"
              /\ requests["handleTrade"] = NoRequest
        /\ tx # NoCall => (log # <<>> /\ log[1] = tx.name)
        /\ (pc # "idle" /\ panel # "none") => isLoading)
  /\ [][HandleTrade =>
          IF Valid
            THEN /\ log' = <<tx'.name>>
                 /\ tx'.name = (IF mode = "buy" THEN "buyTokens" ELSE "sellTokens")
                 /\ pc' = tx'.name
                 /\ isLoading'
            ELSE /\ log' = <<"invalid">>
                 /\ error' # ""
                 /\ tx' = NoCall
                 /\ ~isLoading'
                 /\ pc' = "idle"
                 /\ row' = row
                 /\ requests' = requests
                 /\ closed' = closed
                 /\ refreshes' = refreshes]_vars

\* a token amount above 0 whose TRUST value rounds to 0.000000 is turned down
C14_Witness ==
  /\ panel = "TradePanel"
  /\ address = "0xUser"
  /\ amount = Typed(1, 3)
  /\ trustAmount = ToFixed(Fin(FMul[FromDecimal[1, 3], FromDecimal[1533, 7]]), 6)
  /\ trustAmount.places = 6
  /\ ParseFloat(trustAmount) = Fin(Zero)
  /\ log = <<"invalid">>
  /\ error = "Invalid TRUST amount calculated. Please check your input."
  /\ tx = NoCall


\* C15: a failed buyTokens/sellTokens is shown as a plain message and not
\* retried: a call of handleTrade submits at most one transaction, and the
\* step in which the submission fails ends the call with the error message
\* set, isLoading false, no database write, no onTradeComplete call, and
\* amount and trustAmount as the user entered them; the failed call of a
\* modal closed meanwhile ends and changes nothing that is shown.
C15_NoRetry ==
  /\ [](/\ \A f \in Flights :
              Cardinality(FlightPositions(f, "buyTokens")
                            \cup FlightPositions(f, "sellTokens")) <= 1
        /\ Positions("rejected") # {} =>
              /\ log = <<tx.name, "rejected">>
              /\ pc = "idle"
              /\ ~isLoading)
  /\ [][(pc \in {"buyTokens", "sellTokens"} /\ log' = Append(log, "rejected")) =>
          /\ amount' = amount
          /\ trustAmount' = trustAmount
          /\ TextTruthy(amount') /\ TextTruthy(trustAmount')
          /\ error' \in {"user rejected the request", "Failed to buy tokens",
                         "Failed to sell tokens"}
          /\ pc' = "idle"
          /\ ~isLoading'
          /\ row' = row
          /\ requests' = requests
          /\ dbCall' = dbCall
          /\ refreshes' = refreshes
          /\ closed' = closed
          /\ tx' = tx]_vars
  /\ [][(Len(closed') < Len(closed) /\ closeTimer' = closeTimer) =>
          /\ \E i \in 1..Len(closed) :
                closed[i].pc \in {"buyTokens", "sellTokens"} /\ closed' = Ended(i)
          /\ UNCHANGED <<propVars, fieldVars, isLoading, error, pc, log, tx, row,
                         requests, dbCall, refreshes>>]_vars

C15_Witness ==
  /\ panel = "QuickTradeModal"
  /\ mode = "sell"
  /\ log = <<"sellTokens", "rejected">>
  /\ error = "Failed to sell tokens"
  /\ amount = Typed(5, 0)
  /\ ~isLoading


\* the configured initial price, as a value of the components
FallbackPrice == Fin(FromDecimal[1533, 7])

\* C16: whenever token.currentPrice is missing or 0, the conversions of
\* handleAmountChange and handleTrustChange, in TradePanel and in
\* QuickTradeModal, use 0.0001533 as the price: the derived field shows the
\* typed value times, or divided by, 0.0001533, in the component's format.
C16_Fallback ==
  (panel # "none" /\ JsFalsy(token.currentPrice)) =>
    /\ (typed = "amount" /\ TextTruthy(amount)) =>
          trustAmount \in {ToFixed(JsMul(ParseFloat(amount), FallbackPrice), 6),
                           NumberToString(JsMul(ParseFloat(amount), FallbackPrice))}
    /\ (typed = "trust" /\ TextTruthy(trustAmount)) =>
          amount \in {ToFixed(JsDiv(ParseFloat(trustAmount), FallbackPrice), 6),
                      NumberToString(JsDiv(ParseFloat(trustAmount), FallbackPrice))}


---------------------------------------------------------------------------
(* Properties of the token's row.                                          *)

\* C17: updateTokenInDatabase writes market_cap = calculateMarketCap of the
\* supply passed whenever updates.currentSupply is supplied, whatever
\* marketCap or currentPrice the caller passed; without currentSupply it
\* leaves market_cap as it was; and of current_price, current_supply and
\* holders it writes those supplied and no other.
C17_RecomputedCap ==
  (dbCall.name = "updateTokenInDatabase" /\ dbCall.matched) =>
    /\ row.market_cap =
         IF dbCall.updates.currentSupply.kind = "undefined" THEN dbCall.before.market_cap
         ELSE FMul[calculateBondingCurvePrice(dbCall.updates.currentSupply.val),
                   FromInt[700000000]]
    /\ row.current_price =
         IF dbCall.updates.currentPrice.kind = "undefined" THEN dbCall.before.current_price
         ELSE dbCall.updates.currentPrice.val
    /\ row.current_supply =
         IF dbCall.updates.currentSupply.kind = "undefined"
           THEN dbCall.before.current_supply
         ELSE FFloor[dbCall.updates.currentSupply.val]
    /\ row.holders =
         IF dbCall.updates.holders.kind = "undefined" THEN dbCall.before.holders
         ELSE FFloor[dbCall.updates.holders.val]

\* a caller passes price, supply and a market cap of its own: the cap stored
\* is the one of the curve at the supply
C17_Witness ==
  /\ dbCall.name = "updateTokenInDatabase"
  /\ dbCall.matched
  /\ dbCall.updates.marketCap = Fin(FromInt[1])
  /\ dbCall.updates.currentSupply = Fin(FromInt[100000000])
  /\ dbCall.updates.currentPrice = Fin(FromDecimal[3066, 7])
  /\ row.market_cap = FMul[FromDecimal[3066, 7], FromInt[700000000]]
  /\ row.market_cap # FromInt[1]


\* C18: once the recalculation script has run, and after any sequence of
\* post-trade calls of updateTokenInDatabase, the row has
\* market_cap = current_price * 700,000,000, and 0.0001533 * 700,000,000 when
\* current_supply is 0.  The products are compared up to the rounding of the
\* last places, which the script (SQL numerals) and the update (doubles) do
\* differently.
C18_CapIsPriceTimesAllocation ==
  (Migrated /\ inTable) =>
    IF FIsZero(row.current_supply)
      THEN WithinUlps(row.market_cap, FMul[FromDecimal[1533, 7], FromInt[700000000]], 4)
      ELSE WithinUlps(row.market_cap, FMul[row.current_price, FromInt[700000000]], 4)


---------------------------------------------------------------------------
(* Properties of the wallet connection.                                    *)

\* the calls of connectWallet past the guard and not yet through finally
PastGuard ==
  LET inside == {x \in BagToSet(calls) :
                   x.pc \in {"switchNetwork", "getProvider", "eth_requestAccounts"}}
  IN  [x \in inside |-> calls[x]]

\* the calls that enter the bag in a step
Made == {x \in BagToSet(calls') : CopiesIn(x, calls') > CopiesIn(x, calls)}

\* C19: at most one call of connectWallet is past its guard at any time; a
\* call made while another is in progress is rejected with "Connection
\* already in progress..." and leaves the flag set; and the flag is false as
\* soon as the call in flight has resolved or rejected, so that a call made
\* when none is in flight passes the guard.
C19_OneConnection ==
  /\ [](/\ BagCardinality(PastGuard) <= 1
        /\ isConnecting <=> PastGuard # EmptyBag)
  /\ [][BagCardinality(calls') > BagCardinality(calls) =>
          \A x \in Made :
             IF PastGuard # EmptyBag
               THEN /\ x.pc = "refused"
                    /\ x.error = AlreadyInProgress
                    /\ isConnecting'
                    /\ PastGuard' = PastGuard
               ELSE /\ x.pc = "switchNetwork"
                    /\ isConnecting']_vars
  /\ [][\A x \in BagToSet(calls) :
          (x.pc = "refused" /\ CopiesIn(x, calls') < CopiesIn(x, calls)) =>
             /\ connects'[x.hook].error = AlreadyInProgress
             /\ UNCHANGED isConnecting]_vars
  /\ [](\A c \in Connects :
          connects[c].error # "null" =>
             connects[c].error \in {AlreadyInProgress, "User rejected the request.",
                                    "could not detect network",
                                    "Failed to connect wallet"})

\* a second component, and a second call of the first component's own hook,
\* were turned down while the first one's popup is open
C19_Witness ==
  /\ isConnecting
  /\ calls = SetToBag({[hook |-> 1, pc |-> "eth_requestAccounts", error |-> "null"]})
  /\ connects[1] = [isConnecting |-> FALSE, error |-> AlreadyInProgress]
  /\ connects[2] = [isConnecting |-> FALSE, error |-> AlreadyInProgress]


---------------------------------------------------------------------------
(* The trade components against the engine.                                *)

\* the engine's quotes for what the user typed, at the supply of the token shown
EngineTrust == calculateTrustFromTokens(ParseFloat(amount).val, token.currentSupply.val)
EngineTokens == calculateTokensFromTrust(ParseFloat(trustAmount).val, token.currentSupply.val)

\* the field the component derived, read back as a number
ShownTrust == ParseFloat(trustAmount)
ShownTokens == ParseFloat(amount)

\* C20 as claimed: for a token with current supply s, the TRUST value the
\* component derives from an entered token amount t equals
\* calculateTrustFromTokens(t, s), and the token amount derived from an
\* entered TRUST value p equals calculateTokensFromTrust(p, s).
C20_QuoteEqualsEngine ==
  [][/\ ((\E v \in Entered : HandleAmountChange(v)) /\ TextTruthy(amount')) =>
          ShownTrust' = Fin(EngineTrust')
     /\ ((\E v \in Entered : HandleTrustChange(v)) /\ TextTruthy(trustAmount')) =>
          ShownTokens' = Fin(EngineTokens')]_vars

\* half a unit of the sixth decimal place, with the rounding of the comparison
HalfMicro == FDiv[FromDecimal[5000001, 6], FromInt[10^7]]

\* the token is shown with the price of the curve at its supply
CurvePriced == token.currentPrice = Fin(calculateBondingCurvePrice(token.currentSupply.val))

\* the price of the token shown, with 0.0001533 for none or 0
PriceOr == IF JsFalsy(token.currentPrice) THEN Fin(FromDecimal[1533, 7])
           ELSE token.currentPrice

\* the number a field reads back as is the number a written into it; -0 is
\* written "0" and reads back as 0
ReadsAs(shown, a) ==
  \/ shown = a
  \/ (a.kind = "finite" /\ FIsZero(a.val) /\ shown = Fin(Zero))

\* C20: when a token amount t is entered, QuickTradeModal derives t times the
\* price of the token it is shown, and TradePanel that product rounded to
\* six decimal places, with 0.0001533 for a price that is missing or 0; for
\* a token shown with the price of the curve at its supply s these are
\* calculateTrustFromTokens(t, s) exactly and rounded to six places.  The
\* same holds for an entered TRUST value p, its quotient by the price and
\* calculateTokensFromTrust(p, s).  A token that changes under the
\* component leaves both fields as they are.
C20_QuoteAgrees ==
  /\ [][((\E v \in Entered : HandleAmountChange(v)) /\ TextTruthy(amount')) =>
          IF panel = "QuickTradeModal"
            THEN /\ ReadsAs(ShownTrust', JsMul(ParseFloat(amount'), token.currentPrice))
                 /\ CurvePriced => ShownTrust' = Fin(EngineTrust')
            ELSE /\ trustAmount'.form = "decimal"
                 /\ trustAmount'.places = 6
                 /\ FLe(FAbs[FSub[ShownTrust'.val,
                                  JsMul(ParseFloat(amount'), PriceOr).val]], HalfMicro)
                 /\ CurvePriced =>
                      FLe(FAbs[FSub[ShownTrust'.val, EngineTrust']], HalfMicro)]_vars
  /\ [][((\E v \in Entered : HandleTrustChange(v)) /\ TextTruthy(trustAmount')) =>
          IF panel = "QuickTradeModal"
            THEN /\ ReadsAs(ShownTokens', JsDiv(ParseFloat(trustAmount'), token.currentPrice))
                 /\ CurvePriced => ShownTokens' = Fin(EngineTokens')
            ELSE /\ amount'.form = "decimal"
                 /\ amount'.places = 6
                 /\ FLe(FAbs[FSub[ShownTokens'.val,
                                  JsDiv(ParseFloat(trustAmount'), PriceOr).val]], HalfMicro)
                 /\ CurvePriced =>
                      FLe(FAbs[FSub[ShownTokens'.val, EngineTokens']], HalfMicro)]_vars
  /\ [][(panel # "none" /\ panel' = panel /\ token' # token) =>
          (amount' = amount /\ trustAmount' = trustAmount)]_vars

\* TradePanel has shown 0.000767 TRUST for 5 tokens of a token at 0.0001533,
\* and shows it still under the token at 0.0003066 and supply 100,000,000
\* that the view was handed since, where the engine gives 0.001533
C20_Witness ==
  /\ panel = "TradePanel"
  /\ token.currentSupply = Fin(FromInt[100000000])
  /\ token.currentPrice = Fin(FromDecimal[3066, 7])
  /\ typed = "amount"
  /\ amount = Typed(5, 0)
  /\ trustAmount = ToFixed(Fin(FromDecimal[767, 6]), 6)
  /\ EngineTrust = FromDecimal[1533, 6]


---------------------------------------------------------------------------
(* Properties of holder tracking.                                          *)

\* C21: a call of trackTokenHolder for a holder whose balance is above 0
\* raises the stored holders value by one, and a call for a holder with
\* balance 0 leaves it unchanged.
C21_HoldersIncremented ==
  (tracking.pc = "done" /\ TextTruthy(tracking.balance)) =>
    IF JsGtZero(ParseFloat(tracking.balance)) /\ tracking.wrote
      THEN row.holders = FAdd[tracking.before, FromInt[1]]
      ELSE row.holders = tracking.before


---------------------------------------------------------------------------
(* The engine outside the range of supplies.                               *)

\* C22: for every supply below 0 calculateBondingCurvePrice returns
\* INITIAL_PRICE * (1 + (supply / PRICE_STEP_SIZE)^2), computed on the supply
\* as passed with no clamping from below, and the value is at least
\* INITIAL_PRICE.
C22_NegativeSupply ==
  (fn = "calculateBondingCurvePrice" /\ FLt(args[1], Zero)) =>
    /\ ret = QuadraticPrice(args[1])
    /\ FLe(InitialPrice, ret)
    /\ IsFiniteDouble(ret)

\* supply -300,000,000: ratio -3, price 10 * INITIAL_PRICE
C22_Witness ==
  /\ fn = "calculateBondingCurvePrice"
  /\ args = <<FromInt[-300000000]>>
  /\ ret = FMul[FromDecimal[1533, 7], FromInt[10]]
  /\ FLt(FromDecimal[1533, 7], ret)


---------------------------------------------------------------------------
(* The completed launch.                                                   *)

\* C23: once the chain read after a trade has reported the launch as
\* completed and updateTokenInDatabase has stored the update it was passed,
\* the token refreshed through fetchAllTokens carries isCompleted = true, so
\* that handleTrade on it is turned down with "Trading is disabled".
C23_CompletedDisablesTrading ==
  [][(/\ dbCall.name = "updateTokenInDatabase"
      /\ dbCall.ok
      /\ dbCall.updates.isCompleted = "true"
      /\ \E k \in 1..Len(refreshes) : RefreshProfilesAnswered(k, FALSE)) =>
       /\ token'.isCompleted
       /\ ValidationError(panel, token', address, Typed(5, 0), Typed(5, 0))
            = "Trading is disabled - Token launch has been completed"]_vars


\* C24: handleTrade calls onTradeComplete only when the row was updated: when
\* updateTokenInDatabase has failed, onTradeComplete is not called.
C24_CompleteOnlyAfterWrite ==
  [][(Len(log') > Len(log) /\ log'[Len(log')] = "onTradeComplete") =>
       /\ dbCall'.name = "updateTokenInDatabase"
       /\ dbCall'.ok
       /\ row' = UpdatedRow(row, dbCall'.updates)]_vars


\* C25: isLoading is true only while a handleTrade of the mounted component
\* is in flight, and once the
\* transaction has resolved, a failure of what follows it (the reads of the
\* chain and the update of the row) never sets the error message.
C25_LoadingCleared ==
  /\ isLoading <=> (pc # "idle" /\ panel # "none")
  /\ (pc = "idle" /\ Positions("resolved") # {}) => error = ""


---------------------------------------------------------------------------
(* Properties of useWallet.                                                *)

\* C26: in every reachable state of useWallet a null address implies that
\* balance is "0".
C26_NullAddressZeroBalance ==
  wallet.address = "null" => wallet.balance = "0"


---------------------------------------------------------------------------
(* Properties of the persistence functions.                                *)

\* where the function caller c called has returned after meeting a database
\* error or an exception
ReturnedAfterFailure(c) == persist[c].pc = "returned" /\ persist[c].failure # "none"

\* the one failure a function does not look at: the error of the
\* user_profiles query of fetchAllTokens
ProfilesErrorIgnored(c) ==
  /\ persist[c].fn = "fetchAllTokens"
  /\ persist[c].failure = "error"
  /\ persist[c].at = "user_profiles"

\* C27 as stated: the persistence functions never throw, so no caller reaches
\* its catch block, and on any database error or exception fetchAllTokens
\* returns an empty list, createTokenInDatabase null and the others false.
C27_NeverThrows_Original ==
  \A c \in PersistCallers :
    /\ persist[c].pc # "threw"
    /\ persist[c].caller # "catch"
    /\ ReturnedAfterFailure(c) =>
          /\ persist[c].fn = "fetchAllTokens" => persist[c].ret = "[]"
          /\ persist[c].fn = "createTokenInDatabase" => persist[c].ret = "null"
          /\ persist[c].fn \in {"updateTokenInDatabase", "deleteAllTokens",
                                "checkLinkExists"} => persist[c].ret = "false"

\* C27 amended: the persistence functions never throw, so no caller reaches
\* its catch block; on an exception, or on an error of the query of
\* meme_tokens, fetchAllTokens returns an empty list, createTokenInDatabase
\* null and the others false, each after one console.error of its own; an
\* error of the user_profiles query of fetchAllTokens is ignored and the
\* tokens are returned.  A link that is no atom link fails inside
\* normalizeIntuitionLink, which checkLinkExists answers with false without
\* reaching the database.
C27_NeverThrows ==
  \A c \in PersistCallers :
    /\ persist[c].pc # "threw"
    /\ persist[c].caller # "catch"
    /\ (ReturnedAfterFailure(c) /\ ~ProfilesErrorIgnored(c)) =>
          /\ persist[c].fn = "fetchAllTokens" => persist[c].ret = "[]"
          /\ persist[c].fn = "createTokenInDatabase" => persist[c].ret = "null"
          /\ persist[c].fn \in {"updateTokenInDatabase", "deleteAllTokens",
                                "checkLinkExists"} => persist[c].ret = "false"
          /\ Len(persist[c].logged) = 1
    /\ (ReturnedAfterFailure(c) /\ ProfilesErrorIgnored(c)) =>
          /\ persist[c].ret = "tokens"
          /\ persist[c].logged = <<>>
    /\ (persist[c].fn = "checkLinkExists" /\ persist[c].pc # "returned") =>
          /\ Len(persist[c].link) > Len("https://portal.intuition.systems/explore/atom/0x")
          /\ SubSeq(persist[c].link, 1, 48) =
                "https://portal.intuition.systems/explore/atom/0x"
    /\ (persist[c].pc = "returned" /\ persist[c].failure = "none"
          /\ persist[c].logged # <<>>) =>
          /\ persist[c].fn = "checkLinkExists"
          /\ persist[c].ret = "false"
          /\ persist[c].logged = <<"[v0] Error normalizing link:">>

\* a failed write: the query of updateTokenInDatabase rejected, the function
\* returned false and the caller went on after its await
C27_Witness ==
  /\ persist["handleTrade"].fn = "updateTokenInDatabase"
  /\ persist["handleTrade"].failure = "exception"
  /\ persist["handleTrade"].at = "meme_tokens"
  /\ persist["handleTrade"].ret = "false"
  /\ persist["handleTrade"].caller = "after"

=============================================================================
